---- MODULE Spec2Model ----
(***************************************************************************)
(* Game state machine of the baseball simulation                           *)
(* (backend/app/services/game_engine.py).  One game of the game store is   *)
(* modelled: `state` is the dict stored under its game id.  Helper         *)
(* functions of the engine that mutate the dict are operators from a state *)
(* record to the state record they leave behind, composed in the order the *)
(* code calls them.                                                        *)
(*                                                                         *)
(* Spec is the game under its three operations (process_pitch,             *)
(* process_at_bat, simulate_game): pc, iteration and snapshots are the     *)
(* position, counter and snapshot list of a simulate_game call.  SpecPlay  *)
(* is the game pitch by pitch with the record of the last one: there pc is *)
(* the outcome drawn and snapshots holds the state it was applied to.      *)
(* SpecThreads is a pitch taken statement by statement beside a request    *)
(* that reads the game; SpecStore is the repository of games with the      *)
(* calls that name a game by its id; SpecAdjust is the adjustment of the   *)
(* outcome tables by stats_calculator.  Each of them says what the four    *)
(* variables hold in it.                                                   *)
(***************************************************************************)
EXTENDS Integers, Sequences, FiniteSets, TLC

VARIABLES state, pc, iteration, snapshots

vars == <<state, pc, iteration, snapshots>>

(***************************************************************************)
(* Exploration bounds.                                                     *)
(***************************************************************************)
\* Runs scored by both teams together in the explored games.
MaxRuns == 2
\* Runs are explored in the last ScoringInnings regulation innings and in
\* extra innings; the innings before are explored scoreless.
ScoringInnings == 2
\* Last inning in which plays are explored in a game without lineups.
MaxInning == 10
\* Last inning in which plays are explored in a game with lineups.
MaxInningTeams == 1
\* Plays explored inside one simulate_game call.
MaxSimPlays == 2
\* The log of a game is kept whole while it has fewer than MaxLog entries.
MaxLog == 6
\* SpecPlay: last inning in which plays are explored, and the runs scored
\* by both teams together.
MaxInningPlay == 1
MaxRunsPlay == 4

(***************************************************************************)
(* Program constants.                                                      *)
(***************************************************************************)
TOTAL_INNINGS == 9
max_iterations == 500
\* get_team_lineup returns exactly nine batters.
LineupSize == 9

HIT_TYPES == {"single", "double", "triple", "homerun"}
OUT_TYPES == {"groundout", "flyout", "lineout"}
SwingOutcomes == {"strike_swinging", "foul"} \cup OUT_TYPES \cup HIT_TYPES
TakeOutcomes == {"strike_looking", "ball"}
PitchTypes == {"fastball", "curveball", "slider", "changeup"}

\* Python None / an absent lineup (falsy in `if lineup:`).
None == <<>>
\* A lineup as built by mlb_service.get_team_lineup: batters 1..9.
TeamLineup == [i \in 1..LineupSize |-> i]

RECURSIVE SumSeq(_)
SumSeq(s) == IF s = <<>> THEN 0 ELSE Head(s) + SumSeq(Tail(s))

(***************************************************************************)
(* Messages of the play log, by kind (the text's variable parts - names,   *)
(* pitch type, numbers - are not kept).                                    *)
(***************************************************************************)
MsgPlayBall == "Play Ball!"
MsgPitch == "You throw a ..."
MsgAtBat == "Pitcher throws a ..."
MsgWalk == "Ball four - batter walks!"
MsgStrikeout == "Strikeout!"
MsgOut == "Groundout!/Flyout!/Lineout!"
MsgRuns == "N run(s) score!"
MsgHalf == "--- Top/Bottom of inning N ---"
MsgFinal == "Game Over! Final: ..."
MsgNotPitching == "You're batting right now, not pitching!"
MsgNotBatting == "You're pitching right now, not batting!"

_empty_state ==
    [ game_id |-> "",
      inning |-> 1,
      is_top |-> TRUE,
      outs |-> 0,
      balls |-> 0,
      strikes |-> 0,
      bases |-> <<FALSE, FALSE, FALSE>>,
      away_score |-> [i \in 1..TOTAL_INNINGS |-> 0],
      home_score |-> [i \in 1..TOTAL_INNINGS |-> 0],
      away_total |-> 0,
      home_total |-> 0,
      player_role |-> "pitching",
      game_status |-> "active",
      play_log |-> <<>>,
      last_play |-> <<>>,
      away_team |-> None,
      home_team |-> None,
      away_abbreviation |-> None,
      home_abbreviation |-> None,
      away_lineup |-> None,
      home_lineup |-> None,
      away_batter_idx |-> 0,
      home_batter_idx |-> 0,
      current_batter_index |-> 0,
      home_pitcher |-> None,
      away_pitcher |-> None ]

\* The entries of earlier operations that the model keeps when an operation
\* appends its first entry: all of them while the log is short and whole (it
\* starts with the opening message), none afterwards.
Kept(log) ==
    IF log # <<>> /\ Head(log) = MsgPlayBall /\ Len(log) < MaxLog
    THEN log ELSE <<>>

\* Mutant: the entry is put in front of the log.
LogPlay_in_front(s, msg) ==
    [s EXCEPT !.play_log = <<msg>> \o @, !.last_play = <<msg>>]

\* state["play_log"].append(msg); state["last_play"] = msg
LogPlay(s, msg) ==
    [s EXCEPT !.play_log = Append(@, msg), !.last_play = <<msg>>]

_get_current_batter(s) ==
    LET lineup == IF s.is_top THEN s.away_lineup ELSE s.home_lineup
        idx == IF s.is_top THEN s.away_batter_idx ELSE s.home_batter_idx
    IN IF lineup = None THEN s
       ELSE [s EXCEPT !.current_batter_index = idx % Len(lineup)]

\* Mutant: the index of the team in the field is advanced.
_advance_batter_other_team(s) ==
    IF ~s.is_top
    THEN IF s.away_lineup # None
         THEN [s EXCEPT !.away_batter_idx = (@ + 1) % Len(s.away_lineup)]
         ELSE s
    ELSE IF s.home_lineup # None
         THEN [s EXCEPT !.home_batter_idx = (@ + 1) % Len(s.home_lineup)]
         ELSE s

_advance_batter(s) ==
    IF s.is_top
    THEN IF s.away_lineup # None
         THEN [s EXCEPT !.away_batter_idx = (@ + 1) % Len(s.away_lineup)]
         ELSE s
    ELSE IF s.home_lineup # None
         THEN [s EXCEPT !.home_batter_idx = (@ + 1) % Len(s.home_lineup)]
         ELSE s

_reset_count(s) == [s EXCEPT !.balls = 0, !.strikes = 0]

\* Mutant: a runner on third scores on every walk.
_advance_runners_walk_third_scores(bases) ==
    LET runs == IF bases[3] THEN 1 ELSE 0
        b3 == bases[1] /\ bases[2]
        b2 == IF bases[1] THEN TRUE ELSE bases[2]
    IN [bases |-> <<TRUE, b2, b3>>, runs |-> runs]

\* Mutant: the runner forced from second does not reach third.
_advance_runners_walk_second_lost(bases) ==
    LET runs == IF bases[1] /\ bases[2] /\ bases[3] THEN 1 ELSE 0
        b2 == IF bases[1] THEN TRUE ELSE bases[2]
    IN [bases |-> <<TRUE, b2, bases[3]>>, runs |-> runs]

\* Result of the in-place mutation of bases and the returned runs.
_advance_runners_walk(bases) ==
    LET runs == IF bases[1] /\ bases[2] /\ bases[3] THEN 1 ELSE 0
        b3 == IF bases[1] /\ bases[2] THEN TRUE ELSE bases[3]
        b2 == IF bases[1] THEN TRUE ELSE bases[2]
    IN [bases |-> <<TRUE, b2, b3>>, runs |-> runs]

Count(bases) ==
    (IF bases[1] THEN 1 ELSE 0) + (IF bases[2] THEN 1 ELSE 0)
        + (IF bases[3] THEN 1 ELSE 0)

\* Mutant: third base is not cleared on a double with first base empty.
_advance_runners_hit_double_third_kept(bases, hit_type) ==
    CASE hit_type = "single" ->
           [bases |-> <<TRUE, bases[1], bases[2]>>,
            runs |-> IF bases[3] THEN 1 ELSE 0]
      [] hit_type = "double" ->
           [bases |-> <<FALSE, TRUE, bases[1] \/ bases[3]>>,
            runs |-> (IF bases[3] THEN 1 ELSE 0) + (IF bases[2] THEN 1 ELSE 0)]
      [] hit_type = "triple" ->
           [bases |-> <<FALSE, FALSE, TRUE>>, runs |-> Count(bases)]
      [] hit_type = "homerun" ->
           [bases |-> <<FALSE, FALSE, FALSE>>, runs |-> Count(bases) + 1]
      [] OTHER -> [bases |-> bases, runs |-> 0]

_advance_runners_hit(bases, hit_type) ==
    CASE hit_type = "single" ->
           [bases |-> <<TRUE, bases[1], bases[2]>>,
            runs |-> IF bases[3] THEN 1 ELSE 0]
      [] hit_type = "double" ->
           [bases |-> <<FALSE, TRUE, bases[1]>>,
            runs |-> (IF bases[3] THEN 1 ELSE 0) + (IF bases[2] THEN 1 ELSE 0)]
      [] hit_type = "triple" ->
           [bases |-> <<FALSE, FALSE, TRUE>>, runs |-> Count(bases)]
      [] hit_type = "homerun" ->
           [bases |-> <<FALSE, FALSE, FALSE>>, runs |-> Count(bases) + 1]
      [] OTHER -> [bases |-> bases, runs |-> 0]

\* Mutant: the runs are credited to the team in the field.
_score_runs_fielding_team(s, runs) ==
    IF runs <= 0 THEN s
    ELSE IF ~s.is_top
         THEN [s EXCEPT !.away_score[s.inning] = @ + runs,
                        !.away_total = @ + runs]
         ELSE [s EXCEPT !.home_score[s.inning] = @ + runs,
                        !.home_total = @ + runs]

\* Mutant: the running total is updated, the inning's slot is not.
_score_runs_total_only(s, runs) ==
    IF runs <= 0 THEN s
    ELSE IF s.is_top
         THEN [s EXCEPT !.away_total = @ + runs]
         ELSE [s EXCEPT !.home_total = @ + runs]

\* Mutant: a run that puts the home team ahead in the bottom of the ninth or
\* later ends the game at once.
_score_runs_walkoff(s, runs) ==
    IF runs <= 0 THEN s
    ELSE IF s.is_top
         THEN [s EXCEPT !.away_score[s.inning] = @ + runs,
                        !.away_total = @ + runs]
         ELSE LET t == [s EXCEPT !.home_score[s.inning] = @ + runs,
                                 !.home_total = @ + runs]
              IN IF t.inning >= TOTAL_INNINGS /\ t.home_total > t.away_total
                 THEN [t EXCEPT !.game_status = "final"]
                 ELSE t

\* Mutant: the home team's runs go to the slot of the inning before.
_score_runs_earlier_slot(s, runs) ==
    IF runs <= 0 THEN s
    ELSE IF s.is_top
         THEN [s EXCEPT !.away_score[s.inning] = @ + runs,
                        !.away_total = @ + runs]
         ELSE [s EXCEPT !.home_score[s.inning - 1] = @ + runs,
                        !.home_total = @ + runs]

_score_runs(s, runs) ==
    IF runs <= 0 THEN s
    ELSE IF s.is_top
         THEN [s EXCEPT !.away_score[s.inning] = @ + runs,
                        !.away_total = @ + runs]
         ELSE [s EXCEPT !.home_score[s.inning] = @ + runs,
                        !.home_total = @ + runs]

\* Mutant: another status value is written.
_end_game_over(s) ==
    LogPlay([s EXCEPT !.game_status = "over"], MsgFinal)

_end_game(s) ==
    LogPlay([s EXCEPT !.game_status = "final"], MsgFinal)

\* Mutant: the walk-off test is >= instead of >.
_end_half_inning_walkoff_ge(s) ==
    LET r == _reset_count([s EXCEPT !.outs = 0,
                                    !.bases = <<FALSE, FALSE, FALSE>>])
    IN IF r.is_top
       THEN LET b == [r EXCEPT !.is_top = FALSE, !.player_role = "batting"]
            IN IF b.inning >= TOTAL_INNINGS /\ b.home_total >= b.away_total
               THEN _end_game(b)
               ELSE LogPlay(_get_current_batter(b), MsgHalf)
       ELSE LET t == [r EXCEPT !.inning = @ + 1, !.is_top = TRUE,
                               !.player_role = "pitching"]
            IN IF t.inning > TOTAL_INNINGS /\ t.home_total # t.away_total
               THEN _end_game(t)
               ELSE LET e == IF t.inning > Len(t.away_score)
                             THEN [t EXCEPT !.away_score = Append(@, 0),
                                            !.home_score = Append(@, 0)]
                             ELSE t
                    IN LogPlay(_get_current_batter(e), MsgHalf)

\* Mutant: only the away sequence is extended in extra innings.
_end_half_inning_extend_away(s) ==
    LET r == _reset_count([s EXCEPT !.outs = 0,
                                    !.bases = <<FALSE, FALSE, FALSE>>])
    IN IF r.is_top
       THEN LET b == [r EXCEPT !.is_top = FALSE, !.player_role = "batting"]
            IN IF b.inning >= TOTAL_INNINGS /\ b.home_total > b.away_total
               THEN _end_game(b)
               ELSE LogPlay(_get_current_batter(b), MsgHalf)
       ELSE LET t == [r EXCEPT !.inning = @ + 1, !.is_top = TRUE,
                               !.player_role = "pitching"]
            IN IF t.inning > TOTAL_INNINGS /\ t.home_total # t.away_total
               THEN _end_game(t)
               ELSE LET e == IF t.inning > Len(t.away_score)
                             THEN [t EXCEPT !.away_score = Append(@, 0)]
                             ELSE t
                    IN LogPlay(_get_current_batter(e), MsgHalf)

\* Mutant: the role is not switched when the home team comes to bat.
_end_half_inning_role_kept(s) ==
    LET r == _reset_count([s EXCEPT !.outs = 0,
                                    !.bases = <<FALSE, FALSE, FALSE>>])
    IN IF r.is_top
       THEN LET b == [r EXCEPT !.is_top = FALSE]
            IN IF b.inning >= TOTAL_INNINGS /\ b.home_total > b.away_total
               THEN _end_game(b)
               ELSE LogPlay(_get_current_batter(b), MsgHalf)
       ELSE LET t == [r EXCEPT !.inning = @ + 1, !.is_top = TRUE,
                               !.player_role = "pitching"]
            IN IF t.inning > TOTAL_INNINGS /\ t.home_total # t.away_total
               THEN _end_game(t)
               ELSE LET e == IF t.inning > Len(t.away_score)
                             THEN [t EXCEPT !.away_score = Append(@, 0),
                                            !.home_score = Append(@, 0)]
                             ELSE t
                    IN LogPlay(_get_current_batter(e), MsgHalf)

\* Mutant: the walk-off test starts one inning late.
_end_half_inning_walkoff_late(s) ==
    LET r == _reset_count([s EXCEPT !.outs = 0,
                                    !.bases = <<FALSE, FALSE, FALSE>>])
    IN IF r.is_top
       THEN LET b == [r EXCEPT !.is_top = FALSE, !.player_role = "batting"]
            IN IF b.inning > TOTAL_INNINGS /\ b.home_total > b.away_total
               THEN _end_game(b)
               ELSE LogPlay(_get_current_batter(b), MsgHalf)
       ELSE LET t == [r EXCEPT !.inning = @ + 1, !.is_top = TRUE,
                               !.player_role = "pitching"]
            IN IF t.inning > TOTAL_INNINGS /\ t.home_total # t.away_total
               THEN _end_game(t)
               ELSE LET e == IF t.inning > Len(t.away_score)
                             THEN [t EXCEPT !.away_score = Append(@, 0),
                                            !.home_score = Append(@, 0)]
                             ELSE t
                    IN LogPlay(_get_current_batter(e), MsgHalf)

\* Mutant: no slot is added for an extra inning.
_end_half_inning_no_slot(s) ==
    LET r == _reset_count([s EXCEPT !.outs = 0,
                                    !.bases = <<FALSE, FALSE, FALSE>>])
    IN IF r.is_top
       THEN LET b == [r EXCEPT !.is_top = FALSE, !.player_role = "batting"]
            IN IF b.inning >= TOTAL_INNINGS /\ b.home_total > b.away_total
               THEN _end_game(b)
               ELSE LogPlay(_get_current_batter(b), MsgHalf)
       ELSE LET t == [r EXCEPT !.inning = @ + 1, !.is_top = TRUE,
                               !.player_role = "pitching"]
            IN IF t.inning > TOTAL_INNINGS /\ t.home_total # t.away_total
               THEN _end_game(t)
               ELSE LogPlay(_get_current_batter(t), MsgHalf)

\* Mutant: the game can end after the bottom of the eighth.
_end_half_inning_eight_innings(s) ==
    LET r == _reset_count([s EXCEPT !.outs = 0,
                                    !.bases = <<FALSE, FALSE, FALSE>>])
    IN IF r.is_top
       THEN LET b == [r EXCEPT !.is_top = FALSE, !.player_role = "batting"]
            IN IF b.inning >= TOTAL_INNINGS /\ b.home_total > b.away_total
               THEN _end_game(b)
               ELSE LogPlay(_get_current_batter(b), MsgHalf)
       ELSE LET t == [r EXCEPT !.inning = @ + 1, !.is_top = TRUE,
                               !.player_role = "pitching"]
            IN IF t.inning >= TOTAL_INNINGS /\ t.home_total # t.away_total
               THEN _end_game(t)
               ELSE LET e == IF t.inning > Len(t.away_score)
                             THEN [t EXCEPT !.away_score = Append(@, 0),
                                            !.home_score = Append(@, 0)]
                             ELSE t
                    IN LogPlay(_get_current_batter(e), MsgHalf)

_end_half_inning(s) ==
    LET r == _reset_count([s EXCEPT !.outs = 0,
                                    !.bases = <<FALSE, FALSE, FALSE>>])
    IN IF r.is_top
       THEN LET b == [r EXCEPT !.is_top = FALSE, !.player_role = "batting"]
            IN IF b.inning >= TOTAL_INNINGS /\ b.home_total > b.away_total
               THEN _end_game(b)
               ELSE LogPlay(_get_current_batter(b), MsgHalf)
       ELSE LET t == [r EXCEPT !.inning = @ + 1, !.is_top = TRUE,
                               !.player_role = "pitching"]
            IN IF t.inning > TOTAL_INNINGS /\ t.home_total # t.away_total
               THEN _end_game(t)
               ELSE LET e == IF t.inning > Len(t.away_score)
                             THEN [t EXCEPT !.away_score = Append(@, 0),
                                            !.home_score = Append(@, 0)]
                             ELSE t
                    IN LogPlay(_get_current_batter(e), MsgHalf)

\* Mutant: the count is not reset after the walk.
_walk_keeps_count(s) ==
    LET l == LogPlay(s, MsgWalk)
        adv == _advance_runners_walk(l.bases)
        sc == _score_runs([l EXCEPT !.bases = adv.bases], adv.runs)
    IN _get_current_batter(_advance_batter(sc))

_walk(s) ==
    LET l == LogPlay(s, MsgWalk)
        adv == _advance_runners_walk(l.bases)
        sc == _score_runs([l EXCEPT !.bases = adv.bases], adv.runs)
    IN _get_current_batter(_advance_batter(_reset_count(sc)))

\* Mutant: the count is not reset after the out.
_record_out_keeps_count(s, description) ==
    LET l == LogPlay(s, description)
        o == _advance_batter([l EXCEPT !.outs = @ + 1])
    IN IF o.outs >= 3 THEN _end_half_inning(o) ELSE _get_current_batter(o)

\* Mutant: the half-inning ends after more than three outs.
_record_out_gt(s, description) ==
    LET l == LogPlay(s, description)
        o == _advance_batter(_reset_count([l EXCEPT !.outs = @ + 1]))
    IN IF o.outs > 3 THEN _end_half_inning(o) ELSE _get_current_batter(o)

\* Mutant: every out clears the bases.
_record_out_clears_bases(s, description) ==
    LET l == LogPlay(s, description)
        o == _advance_batter(_reset_count(
                 [l EXCEPT !.outs = @ + 1,
                           !.bases = <<FALSE, FALSE, FALSE>>]))
    IN IF o.outs >= 3 THEN _end_half_inning(o) ELSE _get_current_batter(o)

_record_out(s, description) ==
    LET l == LogPlay(s, description)
        o == _advance_batter(_reset_count([l EXCEPT !.outs = @ + 1]))
    IN IF o.outs >= 3 THEN _end_half_inning(o) ELSE _get_current_batter(o)

_record_hit(s, hit_type) ==
    LET adv == _advance_runners_hit(s.bases, hit_type)
        sc == _score_runs([s EXCEPT !.bases = adv.bases], adv.runs)
        n == _get_current_batter(_advance_batter(_reset_count(sc)))
    IN IF adv.runs > 0
       THEN [n EXCEPT !.play_log = Append(@, MsgRuns),
                      !.last_play = Append(@, MsgRuns)]
       ELSE n

\* Mutant: a foul with two strikes is a strikeout.
_apply_outcome_foul_out(s, outcome, msg) ==
    LET l == LogPlay([s EXCEPT !.play_log = Kept(@)], msg)
    IN CASE outcome = "ball" ->
              LET b == [l EXCEPT !.balls = @ + 1]
              IN IF b.balls >= 4 THEN _walk(b) ELSE b
         [] outcome \in {"strike_looking", "strike_swinging"} ->
              LET k == [l EXCEPT !.strikes = @ + 1]
              IN IF k.strikes >= 3 THEN _record_out(k, MsgStrikeout) ELSE k
         [] outcome = "foul" ->
              IF l.strikes < 2 THEN [l EXCEPT !.strikes = @ + 1]
              ELSE _record_out(l, MsgStrikeout)
         [] outcome \in OUT_TYPES -> _record_out(l, MsgOut)
         [] outcome \in HIT_TYPES -> _record_hit(l, outcome)
         [] OTHER -> l

\* Mutant: a foul always adds a strike.
_apply_outcome_foul_strike(s, outcome, msg) ==
    LET l == LogPlay([s EXCEPT !.play_log = Kept(@)], msg)
    IN CASE outcome = "ball" ->
              LET b == [l EXCEPT !.balls = @ + 1]
              IN IF b.balls >= 4 THEN _walk(b) ELSE b
         [] outcome \in {"strike_looking", "strike_swinging"} ->
              LET k == [l EXCEPT !.strikes = @ + 1]
              IN IF k.strikes >= 3 THEN _record_out(k, MsgStrikeout) ELSE k
         [] outcome = "foul" -> [l EXCEPT !.strikes = @ + 1]
         [] outcome \in OUT_TYPES -> _record_out(l, MsgOut)
         [] outcome \in HIT_TYPES -> _record_hit(l, outcome)
         [] OTHER -> l

_apply_outcome(s, outcome, msg) ==
    LET l == LogPlay([s EXCEPT !.play_log = Kept(@)], msg)
    IN CASE outcome = "ball" ->
              LET b == [l EXCEPT !.balls = @ + 1]
              IN IF b.balls >= 4 THEN _walk(b) ELSE b
         [] outcome \in {"strike_looking", "strike_swinging"} ->
              LET k == [l EXCEPT !.strikes = @ + 1]
              IN IF k.strikes >= 3 THEN _record_out(k, MsgStrikeout) ELSE k
         [] outcome = "foul" ->
              IF l.strikes < 2 THEN [l EXCEPT !.strikes = @ + 1] ELSE l
         [] outcome \in OUT_TYPES -> _record_out(l, MsgOut)
         [] outcome \in HIT_TYPES -> _record_hit(l, outcome)
         [] OTHER -> l

\* determine_outcome draws from the swing table or from the take table of the
\* pitch type; every outcome of a table has a weight >= 1, so each can be drawn.
determine_outcome(pitch_type, swings) ==
    IF swings THEN SwingOutcomes ELSE TakeOutcomes

\* cpu_decides_swing() is either; cpu_picks_pitch() is any pitch type.
cpu_decides_swing == BOOLEAN
cpu_picks_pitch == PitchTypes

\* The outcomes a play can draw, over the random choices it makes.
Outcomes(pitch_types, swing_choices) ==
    UNION {determine_outcome(p, sw) : p \in pitch_types, sw \in swing_choices}

(***************************************************************************)
(* Exploration bound on a play from s to t: the inning is within the       *)
(* explored innings, and a play that scores is within the explored runs.   *)
(***************************************************************************)
InningBound(s) ==
    IF s.away_lineup = None /\ s.home_lineup = None
    THEN MaxInning ELSE MaxInningTeams

Explored(s, t) ==
    /\ s.inning <= InningBound(s)
    /\ \/ t.away_total + t.home_total = s.away_total + s.home_total
       \/ /\ s.inning > TOTAL_INNINGS - ScoringInnings
          /\ t.away_total + t.home_total <= MaxRuns

\* simulate_game calls are explored between batters with the bases empty, on
\* a fresh game and from the ninth inning on.
SimExplored(s) ==
    /\ s.balls = 0 /\ s.strikes = 0
    /\ s.bases = <<FALSE, FALSE, FALSE>>
    /\ \/ s.inning >= TOTAL_INNINGS
       \/ s.play_log = <<MsgPlayBall>>
    /\ s.last_play \notin {<<MsgNotPitching>>, <<MsgNotBatting>>}

_snapshot(s) ==
    [ inning |-> s.inning,
      is_top |-> s.is_top,
      outs |-> s.outs,
      balls |-> s.balls,
      strikes |-> s.strikes,
      bases |-> s.bases,
      away_score |-> s.away_score,
      home_score |-> s.home_score,
      away_total |-> s.away_total,
      home_total |-> s.home_total,
      player_role |-> s.player_role,
      game_status |-> s.game_status,
      last_play |-> s.last_play,
      play_log |-> s.play_log,
      current_batter_index |-> s.current_batter_index,
      home_pitcher |-> s.home_pitcher,
      away_pitcher |-> s.away_pitcher,
      away_team |-> s.away_team,
      home_team |-> s.home_team,
      away_abbreviation |-> s.away_abbreviation,
      home_abbreviation |-> s.home_abbreviation ]

(***************************************************************************)
(* The data provider, mlb_service.  Its calls go to the endpoints "teams"  *)
(* and "team_roster" of the MLB API; down is the set of calls whose        *)
(* endpoint fails: "teams" (get_all_teams), "opponent" (get_all_teams      *)
(* inside get_random_opponent), "team_roster" (the roster behind           *)
(* get_team_lineup and get_team_pitchers).                                 *)
(***************************************************************************)
ProviderCalls == {"teams", "opponent", "team_roster"}

\* get_all_teams: the teams, by id.  NoId is an id that was not given (None,
\* falsy in `if home_team_id:`); UnknownId is the id of no team.
TeamIds == {1, 2}
NoId == 0
UnknownId == 99
get_all_teams ==
    [id \in TeamIds |-> [id |-> id, name |-> <<"team", id>>,
                         abbreviation |-> <<"abbr", id>>]]

\* get_random_opponent: any team but the one excluded.
get_random_opponent(exclude_team_id) ==
    {get_all_teams[id] : id \in TeamIds \ {exclude_team_id}}

\* Mutant: the placeholder lineup is one batter short.
get_team_lineup_short(team_id, down) ==
    IF "team_roster" \in down
    THEN [i \in 1..(LineupSize - 1) |-> 0]
    ELSE TeamLineup

\* get_team_lineup: nine batters of the roster, or nine placeholder batters
\* (id 0) when the roster cannot be fetched; it never raises.
get_team_lineup(team_id, down) ==
    IF "team_roster" \in down
    THEN [i \in 1..LineupSize |-> 0]
    ELSE TeamLineup

\* get_team_pitcher: the first pitcher of get_team_pitchers, which is empty
\* when the roster cannot be fetched: then the placeholder pitcher (id 0).
get_team_pitcher(team_id, down) ==
    IF "team_roster" \in down
    THEN [id |-> 0, name |-> "Unknown Pitcher"]
    ELSE [id |-> team_id, name |-> "pitcher"]

\* The fallback of create_new_game: the opening message on the state as the
\* attempt left it.
create_new_game_fallback(s) == LogPlay(s, MsgPlayBall)

\* create_new_game with the home team found and the opponent picked.
create_new_game_matchup(s, home_team, opponent, down) ==
    LET named == [s EXCEPT !.home_team = home_team.name,
                           !.home_abbreviation = home_team.abbreviation,
                           !.away_team = opponent.name,
                           !.away_abbreviation = opponent.abbreviation]
        lined == [named EXCEPT
                    !.home_lineup = get_team_lineup(home_team.id, down),
                    !.away_lineup = get_team_lineup(opponent.id, down)]
        staffed == [lined EXCEPT
                    !.home_pitcher = get_team_pitcher(home_team.id, down),
                    !.away_pitcher = get_team_pitcher(opponent.id, down)]
    IN LogPlay(_get_current_batter(staffed), MsgPlayBall)

\* The games create_new_game can return for an id drawn by uuid4: one for
\* each opponent get_random_opponent can pick.  An exception of the provider
\* ends the attempt and leads to the fallback.
create_new_game(game_id, home_team_id, away_team_id, down) ==
    LET s == [_empty_state EXCEPT !.game_id = game_id]
    IN IF home_team_id = NoId \/ "teams" \in down
          \/ home_team_id \notin TeamIds
       THEN {create_new_game_fallback(s)}
       ELSE IF away_team_id \in TeamIds
            THEN {create_new_game_matchup(s, get_all_teams[home_team_id],
                                          get_all_teams[away_team_id], down)}
            ELSE IF "opponent" \in down
                 THEN {create_new_game_fallback(s)}
                 ELSE {create_new_game_matchup(s, get_all_teams[home_team_id],
                                               opponent, down)
                         : opponent \in get_random_opponent(home_team_id)}

\* create_new_game without a home team id (or after a failure of the teams
\* endpoint).
create_new_game_default ==
    CHOOSE g \in create_new_game(1, NoId, NoId, {}) : TRUE

\* create_new_game with a home team: both lineups come from get_team_lineup.
create_new_game_teams ==
    CHOOSE g \in create_new_game(1, 1, NoId, {}) : TRUE

Init ==
    /\ state \in {create_new_game_default, create_new_game_teams}
    /\ pc = "idle"
    /\ iteration = 0
    /\ snapshots = <<>>

\* Mutant: the guard on the role is missing.
process_pitch_no_role_guard ==
    /\ pc = "idle"
    /\ IF state.game_status # "active"
       THEN UNCHANGED state
       ELSE \E outcome \in UNION {Outcomes({pitch_type}, cpu_decides_swing)
                                    : pitch_type \in PitchTypes} :
              LET t == _apply_outcome(_get_current_batter(state),
                                      outcome, MsgPitch)
              IN /\ Explored(state, t)
                 /\ state' = t
    /\ UNCHANGED <<pc, iteration, snapshots>>

process_pitch ==
    /\ pc = "idle"
    /\ IF state.game_status # "active"
       THEN UNCHANGED state
       ELSE IF state.player_role # "pitching"
            THEN state' = [state EXCEPT !.last_play = <<MsgNotPitching>>]
            ELSE \E outcome \in UNION {Outcomes({pitch_type}, cpu_decides_swing)
                                         : pitch_type \in PitchTypes} :
                   LET t == _apply_outcome(_get_current_batter(state),
                                           outcome, MsgPitch)
                   IN /\ Explored(state, t)
                      /\ state' = t
    /\ UNCHANGED <<pc, iteration, snapshots>>

\* Mutant: the guard on a finished game is missing.
process_at_bat_no_status_guard ==
    /\ pc = "idle"
    /\ IF state.player_role # "batting"
       THEN state' = [state EXCEPT !.last_play = <<MsgNotBatting>>]
       ELSE \E outcome \in UNION {Outcomes(cpu_picks_pitch, {action = "swing"})
                                    : action \in {"swing", "take"}} :
              LET t == _apply_outcome(_get_current_batter(state),
                                      outcome, MsgAtBat)
              IN /\ Explored(state, t)
                 /\ state' = t
    /\ UNCHANGED <<pc, iteration, snapshots>>

process_at_bat ==
    /\ pc = "idle"
    /\ IF state.game_status # "active"
       THEN UNCHANGED state
       ELSE IF state.player_role # "batting"
            THEN state' = [state EXCEPT !.last_play = <<MsgNotBatting>>]
            ELSE \E outcome \in UNION {Outcomes(cpu_picks_pitch, {action = "swing"})
                                         : action \in {"swing", "take"}} :
                   LET t == _apply_outcome(_get_current_batter(state),
                                           outcome, MsgAtBat)
                   IN /\ Explored(state, t)
                      /\ state' = t
    /\ UNCHANGED <<pc, iteration, snapshots>>

\* simulate_game up to its loop: the guard, then snapshot 0.
simulate_game_start ==
    /\ pc = "idle"
    /\ IF state.game_status # "active"
       THEN UNCHANGED <<pc, iteration, snapshots>>
       ELSE /\ SimExplored(state)
            /\ pc' = "sim"
            /\ iteration' = 0
            /\ snapshots' = <<_snapshot(state)>>
    /\ UNCHANGED state

\* The plays explored in one call of simulate_game: any outcome for the first
\* MaxSimPlays plays; after them, in a call made on a new game, the fouls with
\* two strikes, which leave the game where it is, so that the loop runs on to
\* its ceiling.
SimPlayExplored(s, outcome) ==
    \/ iteration < MaxSimPlays
    \/ /\ snapshots[1].play_log = <<MsgPlayBall>>
       /\ s.strikes = 2
       /\ outcome = "foul"

\* The loop with the ceiling tested after the play instead of before it.
simulate_game_play_ceiling_late ==
    /\ pc = "sim"
    /\ state.game_status = "active" /\ iteration <= max_iterations
    /\ iteration' = iteration + 1
    /\ \E outcome \in Outcomes(cpu_picks_pitch, cpu_decides_swing) :
         LET msg == IF state.player_role = "pitching" THEN MsgPitch ELSE MsgAtBat
             t == _apply_outcome(_get_current_batter(state), outcome, msg)
         IN /\ SimPlayExplored(state, outcome)
            /\ Explored(state, t)
            /\ state' = t
            /\ snapshots' = Append(snapshots, _snapshot(t))
    /\ pc' = pc

\* The loop with the snapshot taken before the outcome is applied.
simulate_game_play_snapshot_before ==
    /\ pc = "sim"
    /\ state.game_status = "active" /\ iteration < max_iterations
    /\ iteration' = iteration + 1
    /\ \E outcome \in Outcomes(cpu_picks_pitch, cpu_decides_swing) :
         LET msg == IF state.player_role = "pitching" THEN MsgPitch ELSE MsgAtBat
             t == _apply_outcome(_get_current_batter(state), outcome, msg)
         IN /\ SimPlayExplored(state, outcome)
            /\ Explored(state, t)
            /\ state' = t
            /\ snapshots' = Append(snapshots, _snapshot(state))
    /\ pc' = pc

\* The loop playing whole at-bats: the count is reset before each play.
simulate_game_play_fresh_count ==
    /\ pc = "sim"
    /\ state.game_status = "active" /\ iteration < max_iterations
    /\ iteration' = iteration + 1
    /\ \E outcome \in Outcomes(cpu_picks_pitch, cpu_decides_swing) :
         LET msg == IF state.player_role = "pitching" THEN MsgPitch ELSE MsgAtBat
             t == _apply_outcome(_get_current_batter(_reset_count(state)),
                                 outcome, msg)
         IN /\ SimPlayExplored(state, outcome)
            /\ Explored(state, t)
            /\ state' = t
            /\ snapshots' = Append(snapshots, _snapshot(t))
    /\ pc' = pc

\* One iteration of the loop of simulate_game.
simulate_game_play ==
    /\ pc = "sim"
    /\ state.game_status = "active" /\ iteration < max_iterations
    /\ iteration' = iteration + 1
    /\ \E outcome \in Outcomes(cpu_picks_pitch, cpu_decides_swing) :
         LET msg == IF state.player_role = "pitching" THEN MsgPitch ELSE MsgAtBat
             t == _apply_outcome(_get_current_batter(state), outcome, msg)
         IN /\ SimPlayExplored(state, outcome)
            /\ Explored(state, t)
            /\ state' = t
            /\ snapshots' = Append(snapshots, _snapshot(t))
    /\ pc' = pc

\* simulate_game that calls the game off at the ceiling.
simulate_game_return_calls_off ==
    /\ pc = "sim"
    /\ ~(state.game_status = "active" /\ iteration < max_iterations)
    /\ pc' = "returned"
    /\ state' = [state EXCEPT !.game_status = "final"]
    /\ UNCHANGED <<iteration, snapshots>>

\* The loop of simulate_game is left: the state is saved and returned with the
\* snapshots (the result is the state with the snapshots added to it).
simulate_game_return ==
    /\ pc = "sim"
    /\ ~(state.game_status = "active" /\ iteration < max_iterations)
    /\ pc' = "returned"
    /\ UNCHANGED <<state, iteration, snapshots>>

\* The route /simulate sends the result as the response; the locals of the
\* call are gone.
simulate ==
    /\ pc = "returned"
    /\ pc' = "idle"
    /\ iteration' = 0
    /\ snapshots' = <<>>
    /\ UNCHANGED state

Next ==
    \/ process_pitch
    \/ process_at_bat
    \/ simulate_game_start
    \/ simulate_game_play
    \/ simulate_game_return
    \/ simulate

Spec == Init /\ [][Next]_vars

(***************************************************************************)
(* SpecPlay: the accepted pitches of the first innings, each with its      *)
(* record. A play is a pitch that process_pitch or process_at_bat accepts  *)
(* in role; after it pc holds the outcome that was drawn and snapshots     *)
(* holds the state it was applied to. The game without lineups is explored *)
(* through MaxInningPlay innings, the game with lineups through the away   *)
(* team's first time at bat.                                               *)
(***************************************************************************)
PlayExplored(s, t) ==
    /\ s.inning <= MaxInningPlay
    /\ t.away_total + t.home_total <= MaxRunsPlay
    /\ s.away_lineup # None => s.inning = 1 /\ s.is_top

play ==
    /\ state.game_status = "active"
    /\ \E outcome \in Outcomes(PitchTypes, BOOLEAN) :
         LET msg == IF state.player_role = "pitching" THEN MsgPitch ELSE MsgAtBat
             t == _apply_outcome(_get_current_batter(state), outcome, msg)
         IN /\ PlayExplored(state, t)
            /\ state' = t
            /\ pc' = outcome
            /\ snapshots' = <<state>>
    /\ UNCHANGED iteration

NextPlay == play

SpecPlay == Init /\ [][NextPlay]_vars

(***************************************************************************)
(* SpecThreads: two requests for one game at the same time.  The routes    *)
(* are plain functions, which the server runs on worker threads;           *)
(* game_store hands out the stored dict itself and takes no lock, and the  *)
(* engine writes to that dict statement by statement.  One thread is in    *)
(* pitch or bat, its call of _apply_outcome taken in two steps: up to the  *)
(* statement that counts the pitch, and the rest.  The other thread is in  *)
(* get_game_state: snapshots holds the state its response is built from,   *)
(* until the response is sent.  pc is the position of the first thread:    *)
(* "idle", or the outcome whose count is written.                          *)
(***************************************************************************)
MaxRunsThreads == 1

ThreadsExplored(s, t) ==
    /\ s.inning = 1 /\ s.is_top
    /\ t.away_total <= MaxRunsThreads

\* _apply_outcome up to the statement that counts the pitch.
_apply_outcome_count(s, outcome, msg) ==
    LET l == LogPlay([s EXCEPT !.play_log = Kept(@)], msg)
    IN CASE outcome = "ball" -> [l EXCEPT !.balls = @ + 1]
         [] outcome \in {"strike_looking", "strike_swinging"} ->
              [l EXCEPT !.strikes = @ + 1]
         [] outcome = "foul" ->
              IF l.strikes < 2 THEN [l EXCEPT !.strikes = @ + 1] ELSE l
         [] OTHER -> l

\* _apply_outcome after the statement that counts the pitch.
_apply_outcome_rest(s, outcome) ==
    CASE outcome = "ball" -> IF s.balls >= 4 THEN _walk(s) ELSE s
      [] outcome \in {"strike_looking", "strike_swinging"} ->
           IF s.strikes >= 3 THEN _record_out(s, MsgStrikeout) ELSE s
      [] outcome \in OUT_TYPES -> _record_out(s, MsgOut)
      [] outcome \in HIT_TYPES -> _record_hit(s, outcome)
      [] OTHER -> s

\* pitch or bat, whichever is in role, as far as the count of the pitch.
pitch_count ==
    /\ pc = "idle" /\ snapshots = <<>>
    /\ state.game_status = "active"
    /\ \E outcome \in Outcomes(PitchTypes, BOOLEAN) :
         LET msg == IF state.player_role = "pitching" THEN MsgPitch ELSE MsgAtBat
             b == _get_current_batter(state)
         IN /\ ThreadsExplored(state, _apply_outcome(b, outcome, msg))
            /\ state' = _apply_outcome_count(b, outcome, msg)
            /\ pc' = outcome
    /\ UNCHANGED <<iteration, snapshots>>

\* The rest of the call.
pitch_rest ==
    /\ pc \in Outcomes(PitchTypes, BOOLEAN) /\ snapshots = <<>>
    /\ state' = _apply_outcome_rest(state, pc)
    /\ pc' = "idle"
    /\ UNCHANGED <<iteration, snapshots>>

\* get_game_state on the other thread: the response is built from the stored
\* dict as it is now.
get_game_state ==
    /\ snapshots = <<>>
    /\ snapshots' = <<state>>
    /\ UNCHANGED <<state, pc, iteration>>

\* The response is sent.
get_game_state_response ==
    /\ snapshots # <<>>
    /\ snapshots' = <<>>
    /\ UNCHANGED <<state, pc, iteration>>

NextThreads ==
    \/ pitch_count
    \/ pitch_rest
    \/ get_game_state
    \/ get_game_state_response

SpecThreads == Init /\ [][NextThreads]_vars

(***************************************************************************)
(* SpecStore: the repository of games and the calls that name a game by    *)
(* its id.  Here state is the dict _games of game_store, from the ids      *)
(* stored to their games; iteration counts the ids uuid4 has drawn, the    *)
(* ids being 1, 2, ... in the order drawn; pc is the operation called      *)
(* last, and snapshots holds that call: its arguments and its result.      *)
(* A call of simulate_game on a stored game is the subject of Spec.        *)
(***************************************************************************)
\* Games created.
MaxGames == 1

_games == state
Call == snapshots[1]
\* The ids of the calls: those of the games created and one more.
GameIds == 1..(MaxGames + 1)
\* The empty dict of `return state or {}`.
EmptyDict == <<>>

\* The pitches explored are the first ones of the stored games.
StoreExplored(s) == s.play_log = <<MsgPlayBall>>

\* Mutant: a lookup that misses stores and returns a new default game.
get_game_defaulting(games, game_id) ==
    IF game_id \in DOMAIN games THEN games[game_id]
    ELSE create_new_game_fallback([_empty_state EXCEPT !.game_id = game_id])

get_game(games, game_id) ==
    IF game_id \in DOMAIN games THEN games[game_id] ELSE None

save_game(games, game_id, s) ==
    [id \in DOMAIN games \cup {game_id} |->
        IF id = game_id THEN s ELSE games[id]]

InitStore ==
    /\ state = <<>>
    /\ pc = "idle"
    /\ iteration = 0
    /\ snapshots = <<>>

\* Mutant: the fallback game is returned without being stored.
new_game_fallback_not_stored ==
    /\ iteration < MaxGames
    /\ \E home_team_id \in {NoId, UnknownId} \cup TeamIds,
          away_team_id \in {NoId, UnknownId} \cup TeamIds,
          down \in SUBSET ProviderCalls :
         \E g \in create_new_game(iteration + 1, home_team_id, away_team_id,
                                   down) :
            /\ state' = IF g.home_team = None THEN state
                        ELSE save_game(_games, g.game_id, g)
            /\ snapshots' = <<[home_team_id |-> home_team_id,
                               away_team_id |-> away_team_id,
                               down |-> down, result |-> g]>>
    /\ iteration' = iteration + 1
    /\ pc' = "create_new_game"

\* The route /new: create_new_game with an id from uuid4 (taken to be an id
\* that no game has), any team ids and any endpoints of the provider down.
new_game ==
    /\ iteration < MaxGames
    /\ \E home_team_id \in {NoId, UnknownId} \cup TeamIds,
          away_team_id \in {NoId, UnknownId} \cup TeamIds,
          down \in SUBSET ProviderCalls :
         \E g \in create_new_game(iteration + 1, home_team_id, away_team_id,
                                   down) :
            /\ state' = save_game(_games, g.game_id, g)
            /\ snapshots' = <<[home_team_id |-> home_team_id,
                               away_team_id |-> away_team_id,
                               down |-> down, result |-> g]>>
    /\ iteration' = iteration + 1
    /\ pc' = "create_new_game"

\* What a call on game s of the repository does to s: nothing to a game that
\* is over, the message to a game in the other role, one outcome otherwise.
\* The game is the stored dict itself, so the repository holds the result.
StorePlays(s, role, msg, refusal) ==
    IF s.game_status # "active" THEN {s}
    ELSE IF s.player_role # role
         THEN {[s EXCEPT !.last_play = <<refusal>>]}
         ELSE {_apply_outcome(_get_current_batter(s), outcome, msg)
                 : outcome \in {o \in Outcomes(PitchTypes, BOOLEAN)
                                  : StoreExplored(s)}}

\* Mutant: a game is made up for an id that is not stored.
store_process_pitch_defaulting ==
    /\ \E game_id \in GameIds :
         IF game_id \notin DOMAIN _games
         THEN /\ state' = save_game(_games, game_id,
                                    get_game_defaulting(_games, game_id))
              /\ snapshots' = <<[game_id |-> game_id,
                                 result |-> get_game_defaulting(_games, game_id)]>>
         ELSE \E t \in StorePlays(get_game(_games, game_id), "pitching",
                                  MsgPitch, MsgNotPitching) :
                /\ state' = save_game(_games, game_id, t)
                /\ snapshots' = <<[game_id |-> game_id, result |-> t]>>
    /\ pc' = "process_pitch"
    /\ UNCHANGED iteration

\* process_pitch(game_id, pitch_type).
store_process_pitch ==
    /\ \E game_id \in GameIds :
         IF game_id \notin DOMAIN _games
         THEN /\ state' = state
              /\ snapshots' = <<[game_id |-> game_id, result |-> EmptyDict]>>
         ELSE \E t \in StorePlays(get_game(_games, game_id), "pitching",
                                  MsgPitch, MsgNotPitching) :
                /\ state' = save_game(_games, game_id, t)
                /\ snapshots' = <<[game_id |-> game_id, result |-> t]>>
    /\ pc' = "process_pitch"
    /\ UNCHANGED iteration

\* process_at_bat(game_id, action).
store_process_at_bat ==
    /\ \E game_id \in GameIds :
         IF game_id \notin DOMAIN _games
         THEN /\ state' = state
              /\ snapshots' = <<[game_id |-> game_id, result |-> EmptyDict]>>
         ELSE \E t \in StorePlays(get_game(_games, game_id), "batting",
                                  MsgAtBat, MsgNotBatting) :
                /\ state' = save_game(_games, game_id, t)
                /\ snapshots' = <<[game_id |-> game_id, result |-> t]>>
    /\ pc' = "process_at_bat"
    /\ UNCHANGED iteration

\* simulate_game(game_id) with an id that is not stored.
store_simulate_game ==
    /\ \E game_id \in GameIds \ DOMAIN _games :
         /\ state' = state
         /\ snapshots' = <<[game_id |-> game_id, result |-> EmptyDict]>>
    /\ pc' = "simulate_game"
    /\ UNCHANGED iteration

\* get_game(game_id).
store_get_game ==
    /\ \E game_id \in GameIds :
         /\ state' = state
         /\ snapshots' = <<[game_id |-> game_id,
                            result |-> get_game(_games, game_id)]>>
    /\ pc' = "get_game"
    /\ UNCHANGED iteration

NextStore ==
    \/ new_game
    \/ store_process_pitch
    \/ store_process_at_bat
    \/ store_simulate_game
    \/ store_get_game

SpecStore == InitStore /\ [][NextStore]_vars

(***************************************************************************)
(* SpecAdjust: the tables of probabilities.py and their adjustment by      *)
(* stats_calculator.  A stat is given as a whole number of StatGrid-ths of *)
(* its league average (avg / LEAGUE_AVG = x / StatGrid), so that the       *)
(* multipliers and the weights are fractions, computed exactly: a          *)
(* multiplier is kept as its numerator over 2 * StatGrid.  The floats of   *)
(* the code differ from the fractions by less than any gap between two     *)
(* fractions of the grid, except where a scaled weight is exactly halfway  *)
(* between two integers: there round() may go either way.  Here state is   *)
(* the input of the call and snapshots holds the table returned.           *)
(***************************************************************************)
StatGrid == 4

\* Mutant: the slider has the most fouls of the four.
SWING_OUTCOMES_slider_fouls ==
    [ fastball |->
        [ strike_swinging |-> 25, foul |-> 20, groundout |-> 15,
          flyout |-> 12, lineout |-> 5, single |-> 12, double |-> 5,
          triple |-> 1, homerun |-> 5 ],
      curveball |->
        [ strike_swinging |-> 35, foul |-> 15, groundout |-> 15,
          flyout |-> 10, lineout |-> 5, single |-> 10, double |-> 4,
          triple |-> 1, homerun |-> 5 ],
      slider |->
        [ strike_swinging |-> 27, foul |-> 21, groundout |-> 16,
          flyout |-> 10, lineout |-> 5, single |-> 11, double |-> 4,
          triple |-> 1, homerun |-> 5 ],
      changeup |->
        [ strike_swinging |-> 28, foul |-> 17, groundout |-> 17,
          flyout |-> 11, lineout |-> 5, single |-> 11, double |-> 5,
          triple |-> 1, homerun |-> 5 ] ]

SWING_OUTCOMES ==
    [ fastball |->
        [ strike_swinging |-> 25, foul |-> 20, groundout |-> 15,
          flyout |-> 12, lineout |-> 5, single |-> 12, double |-> 5,
          triple |-> 1, homerun |-> 5 ],
      curveball |->
        [ strike_swinging |-> 35, foul |-> 15, groundout |-> 15,
          flyout |-> 10, lineout |-> 5, single |-> 10, double |-> 4,
          triple |-> 1, homerun |-> 5 ],
      slider |->
        [ strike_swinging |-> 30, foul |-> 18, groundout |-> 16,
          flyout |-> 10, lineout |-> 5, single |-> 11, double |-> 4,
          triple |-> 1, homerun |-> 5 ],
      changeup |->
        [ strike_swinging |-> 28, foul |-> 17, groundout |-> 17,
          flyout |-> 11, lineout |-> 5, single |-> 11, double |-> 5,
          triple |-> 1, homerun |-> 5 ] ]

TAKE_OUTCOMES ==
    [ fastball |-> [ strike_looking |-> 55, ball |-> 45 ],
      curveball |-> [ strike_looking |-> 35, ball |-> 65 ],
      slider |-> [ strike_looking |-> 40, ball |-> 60 ],
      changeup |-> [ strike_looking |-> 40, ball |-> 60 ] ]

HIT_OUTCOMES == {"single", "double", "triple", "homerun"}
STRIKEOUT_OUTCOMES == {"strike_swinging"}
OUT_OUTCOMES == {"groundout", "flyout", "lineout"}

\* The stats explored, from below the lower cap of a multiplier to above the
\* upper one.
Stats == 1..(2 * StatGrid - 1)

_clamp(value, lo, hi) ==
    IF value < lo THEN lo ELSE IF value > hi THEN hi ELSE value

\* _clamp(stat / LEAGUE, 1 - MAX_ADJ, 1 + MAX_ADJ), over 2 * StatGrid.
Multiplier(stat) == _clamp(2 * stat, StatGrid, 3 * StatGrid)

\* _clamp(1 / mult, 1 - MAX_ADJ, 1 + MAX_ADJ) for mult over 2 * StatGrid:
\* its numerator over 2 * mult.
Inverse(mult) == _clamp(4 * StatGrid, mult, 3 * mult)

RECURSIVE SumWeights(_, _)
SumWeights(table, keys) ==
    IF keys = {} THEN 0
    ELSE LET k == CHOOSE k \in keys : TRUE
         IN table[k] + SumWeights(table, keys \ {k})

\* sum(table.values())
Total(table) == SumWeights(table, DOMAIN table)

\* round(n / d) for n >= 0 and d > 0: the nearest integer; at a tie (n / d
\* halfway between two integers) the lower one, or the upper one if up.
tie(n, d) == 2 * (n % d) = d
round(n, d, up) ==
    IF 2 * (n % d) < d \/ (tie(n, d) /\ ~up) THEN n \div d ELSE n \div d + 1

\* Mutant: the weight is not floored at 1.
Weight_unfloored(r) == r

\* max(1, r)
Weight(r) == IF r < 1 THEN 1 ELSE r

\* Mutant: the weights are rounded but not scaled back to the total.
Normalized_unscaled(base_outcomes, adjusted, unit) ==
    LET ties == {k \in DOMAIN adjusted : tie(adjusted[k], unit)}
    IN {[k \in DOMAIN adjusted |->
            Weight(round(adjusted[k], unit, k \in up))] : up \in SUBSET ties}

\* The normalization at the end of both functions: every weight v becomes
\* max(1, round(v * total_original / adjusted_total)).  adjusted holds the
\* weights as numerators over unit; the tables it can return, one for each
\* way the ties can go.
Normalized(base_outcomes, adjusted, unit) ==
    LET total_original == Total(base_outcomes)
        adjusted_total == Total(adjusted)
        ties == {k \in DOMAIN adjusted :
                    tie(adjusted[k] * total_original, adjusted_total)}
    IN {[k \in DOMAIN adjusted |->
            Weight(round(adjusted[k] * total_original, adjusted_total,
                         k \in up))] : up \in SUBSET ties}

\* calculate_adjusted_outcomes: the weights are numerators over
\* (2 * StatGrid) * (2 * hit_mult) * (2 * StatGrid).
calculate_adjusted_outcomes(base_outcomes, player_stats, pitcher_stats) ==
    LET one == 2 * StatGrid
        hit_mult == Multiplier(player_stats.avg)
        power_mult == Multiplier(player_stats.slg)
        k_mult == Multiplier(player_stats.k_rate)
        out_mult == Inverse(hit_mult)
        batter(outcome) ==
            CASE outcome \in STRIKEOUT_OUTCOMES -> k_mult * (2 * hit_mult)
              [] outcome = "homerun" -> power_mult * (2 * hit_mult)
              [] outcome \in HIT_OUTCOMES -> hit_mult * (2 * hit_mult)
              [] outcome \in OUT_OUTCOMES -> out_mult * one
              [] OTHER -> one * (2 * hit_mult)
        pitcher(outcome) ==
            IF pitcher_stats = None THEN one
            ELSE CASE outcome \in STRIKEOUT_OUTCOMES ->
                        Multiplier(pitcher_stats.k_per_9)
                   [] outcome \in HIT_OUTCOMES ->
                        Multiplier(pitcher_stats.era)
                   [] OTHER -> one
        adjusted == [outcome \in DOMAIN base_outcomes |->
                       base_outcomes[outcome] * batter(outcome)
                                              * pitcher(outcome)]
    IN Normalized(base_outcomes, adjusted, one * (2 * hit_mult) * one)

\* calculate_adjusted_take_outcomes: the weights are numerators over
\* (2 * StatGrid) * (2 * bb_mult).
calculate_adjusted_take_outcomes(base_outcomes, pitcher_stats) ==
    LET one == 2 * StatGrid
        bb_mult == Multiplier(pitcher_stats.bb_per_9)
        adjusted == [outcome \in DOMAIN base_outcomes |->
                       IF outcome = "ball"
                       THEN base_outcomes[outcome] * bb_mult * (2 * bb_mult)
                       ELSE base_outcomes[outcome] * Inverse(bb_mult) * one]
    IN Normalized(base_outcomes, adjusted, one * (2 * bb_mult))

\* The calls: a table of a pitch type, the stats of a batter (those of the
\* league when only the pitcher's are known) and of a pitcher, or of none.
InitAdjust ==
    /\ \E pitch_type \in PitchTypes :
         \/ \E player_stats \in [avg : Stats, slg : Stats, k_rate : Stats],
               pitcher_stats \in {None} \cup [era : Stats, k_per_9 : Stats,
                                              bb_per_9 : {StatGrid}] :
              state = [swings |-> TRUE,
                       base_outcomes |-> SWING_OUTCOMES[pitch_type],
                       player_stats |-> player_stats,
                       pitcher_stats |-> pitcher_stats]
         \/ \E pitcher_stats \in [era : {StatGrid}, k_per_9 : {StatGrid},
                                   bb_per_9 : Stats] :
              state = [swings |-> FALSE,
                       base_outcomes |-> TAKE_OUTCOMES[pitch_type],
                       player_stats |-> None,
                       pitcher_stats |-> pitcher_stats]
    /\ pc = "idle"
    /\ iteration = 0
    /\ snapshots = <<>>

\* determine_outcome with swings: the swing table is adjusted.
adjust_swing_table ==
    /\ pc = "idle" /\ state.swings
    /\ \E table \in calculate_adjusted_outcomes(state.base_outcomes,
                         state.player_stats, state.pitcher_stats) :
         snapshots' = <<table>>
    /\ pc' = "adjusted"
    /\ UNCHANGED <<state, iteration>>

\* determine_outcome without swings: the take table is adjusted.
adjust_take_table ==
    /\ pc = "idle" /\ ~state.swings
    /\ \E table \in calculate_adjusted_take_outcomes(state.base_outcomes,
                         state.pitcher_stats) :
         snapshots' = <<table>>
    /\ pc' = "adjusted"
    /\ UNCHANGED <<state, iteration>>

NextAdjust ==
    \/ adjust_swing_table
    \/ adjust_take_table

SpecAdjust == InitAdjust /\ [][NextAdjust]_vars

(***************************************************************************)
(* SpecTables: the tables of probabilities.py as the module keeps them in  *)
(* memory, under any sequence of determine_outcome calls (each pitch of    *)
(* process_pitch, process_at_bat and simulate_game is one such call).      *)
(* Here state is the two tables of the module, SWING_OUTCOMES and          *)
(* TAKE_OUTCOMES; snapshots holds the last call - pitch type, swing, the   *)
(* table the outcome was drawn from - and pc is the outcome it returned.   *)
(***************************************************************************)
\* The stats explored: a stat below the lower cap of its multiplier, at the
\* league average, above the upper cap; all the stats of one player alike.
StatLevels == {1, StatGrid, 2 * StatGrid - 1}
BatterStats == {[avg |-> x, slg |-> x, k_rate |-> x] : x \in StatLevels}
PitcherStats == {[era |-> x, k_per_9 |-> x, bb_per_9 |-> x] : x \in StatLevels}
\* The batter of determine_outcome when only the pitcher's stats are known.
LeagueBatter == [avg |-> StatGrid, slg |-> StatGrid, k_rate |-> StatGrid]

InitTables ==
    /\ state = [SWING_OUTCOMES |-> SWING_OUTCOMES,
                TAKE_OUTCOMES |-> TAKE_OUTCOMES]
    /\ pc = "idle"
    /\ iteration = 0
    /\ snapshots = <<>>

\* The tables determine_outcome can draw from: dict(...) copies the table of
\* the pitch type, and the adjustment returns a new table.
OutcomeTables(tables, pitch_type, swings, player_stats, pitcher_stats) ==
    IF swings
    THEN LET table == tables.SWING_OUTCOMES[pitch_type]
         IN IF player_stats # None
            THEN calculate_adjusted_outcomes(table, player_stats,
                                             pitcher_stats)
            ELSE IF pitcher_stats # None
                 THEN calculate_adjusted_outcomes(table, LeagueBatter,
                                                  pitcher_stats)
                 ELSE {table}
    ELSE LET table == tables.TAKE_OUTCOMES[pitch_type]
         IN IF pitcher_stats # None
            THEN calculate_adjusted_take_outcomes(table, pitcher_stats)
            ELSE {table}

\* weighted_choice: an outcome of the table with a weight above 0.
weighted_choice(weights) == {k \in DOMAIN weights : weights[k] > 0}

\* Mutant: the table of the module is adjusted in place.
determine_outcome_call_in_place ==
    /\ \E pitch_type \in PitchTypes, swings \in BOOLEAN,
          player_stats \in {None} \cup BatterStats,
          pitcher_stats \in {None} \cup PitcherStats :
         \E table \in OutcomeTables(state, pitch_type, swings, player_stats,
                                    pitcher_stats) :
            /\ pc' \in weighted_choice(table)
            /\ snapshots' = <<[pitch_type |-> pitch_type, swings |-> swings,
                               table |-> table]>>
            /\ state' = IF swings
                        THEN [state EXCEPT !.SWING_OUTCOMES[pitch_type] = table]
                        ELSE [state EXCEPT !.TAKE_OUTCOMES[pitch_type] = table]
    /\ UNCHANGED iteration

\* Mutant: a take is drawn from the swing table.
determine_outcome_call_swing_only ==
    /\ \E pitch_type \in PitchTypes, swings \in BOOLEAN,
          player_stats \in {None} \cup BatterStats,
          pitcher_stats \in {None} \cup PitcherStats :
         \E table \in OutcomeTables(state, pitch_type, TRUE, player_stats,
                                    pitcher_stats) :
            /\ pc' \in weighted_choice(table)
            /\ snapshots' = <<[pitch_type |-> pitch_type, swings |-> swings,
                               table |-> table]>>
    /\ UNCHANGED <<state, iteration>>

\* determine_outcome(pitch_type, swings, player_stats, pitcher_stats).
determine_outcome_call ==
    /\ \E pitch_type \in PitchTypes, swings \in BOOLEAN,
          player_stats \in {None} \cup BatterStats,
          pitcher_stats \in {None} \cup PitcherStats :
         \E table \in OutcomeTables(state, pitch_type, swings, player_stats,
                                    pitcher_stats) :
            /\ pc' \in weighted_choice(table)
            /\ snapshots' = <<[pitch_type |-> pitch_type, swings |-> swings,
                               table |-> table]>>
    /\ UNCHANGED <<state, iteration>>

NextTables == determine_outcome_call

SpecTables == InitTables /\ [][NextTables]_vars

(***************************************************************************)
(* Steps and states the properties speak of.                               *)
(***************************************************************************)
EmptyBases == <<FALSE, FALSE, FALSE>>

\* Every game state on record: the stored state and the snapshots taken.
Observed == {_snapshot(state)} \cup {snapshots[i] : i \in DOMAIN snapshots}

\* A step from s to t that records the third out of a half-inning: with two
\* out, only an out changes the number of outs.
ThirdOut(s, t) ==
    s.game_status = "active" /\ s.outs = 2 /\ t.outs # 2

\* A step from s to t that completes an at-bat: an out, or a walk or hit
\* (which put the batter on base or score).
AtBatCompleted(s, t) ==
    /\ s.game_status = "active"
    /\ \/ t.outs # s.outs
       \/ t.bases # s.bases
       \/ t.away_total # s.away_total
       \/ t.home_total # s.home_total

\* In SpecPlay: the state the last play was applied to.
Before == snapshots[1]

\* In SpecPlay: the runs the last play scored.
RunsScored ==
    (state.away_total + state.home_total)
        - (Before.away_total + Before.home_total)

\* The lineup and the lineup index of the team at bat in s.
BattingLineup(s) == IF s.is_top THEN s.away_lineup ELSE s.home_lineup
BattingIdx(s) == IF s.is_top THEN s.away_batter_idx ELSE s.home_batter_idx

\* The at-bat goes on from s to t: same batter, same outs, runners and score.
AtBatGoesOn(s, t) ==
    /\ t.game_status = "active"
    /\ t.inning = s.inning /\ t.is_top = s.is_top
    /\ t.outs = s.outs /\ t.bases = s.bases
    /\ t.away_score = s.away_score /\ t.home_score = s.home_score
    /\ t.away_total = s.away_total /\ t.home_total = s.home_total
    /\ t.away_batter_idx = s.away_batter_idx
    /\ t.home_batter_idx = s.home_batter_idx

(***************************************************************************)
(* C1: in every state on record (the stored state, every snapshot) each    *)
(* total equals the sum of the team's per-inning scores.                   *)
(***************************************************************************)
C1_TotalsAreSums ==
    \A o \in Observed :
        /\ o.away_total = SumSeq(o.away_score)
        /\ o.home_total = SumSeq(o.home_score)

\* The away team has scored two runs in an extra inning.
C1_Witness ==
    /\ state.inning > TOTAL_INNINGS
    /\ Len(state.away_score) = state.inning
    /\ state.away_score[state.inning] = 2
    /\ state.away_total = 2

(***************************************************************************)
(* C2: a finished game is never tied.                                      *)
(***************************************************************************)
C2_NoTieAtFinal ==
    state.game_status = "final" => state.home_total # state.away_total

\* A game finished after a complete extra inning.
C2_Witness ==
    /\ state.game_status = "final"
    /\ state.is_top
    /\ state.inning > TOTAL_INNINGS + 1

(***************************************************************************)
(* C3: walk-off.  The third out of the top of an inning >= 9 with the home *)
(* team strictly ahead ends the game in that step, and nothing changes the *)
(* game afterwards (the bottom half is not played); with the home team not *)
(* ahead the game stays active in the bottom of the same inning.           *)
(***************************************************************************)
C3_WalkOff ==
    [][ /\ ( /\ ThirdOut(state, state')
             /\ state.is_top
             /\ state.inning >= TOTAL_INNINGS )
           => IF state.home_total > state.away_total
              THEN /\ state'.game_status = "final"
                   /\ state'.home_score = state.home_score
              ELSE /\ state'.game_status = "active"
                   /\ ~state'.is_top
                   /\ state'.inning = state.inning
        /\ ( state.game_status = "final" /\ ~state.is_top )
           => state' = state
      ]_vars

\* A game ended by a walk-off in the ninth.
C3_Witness ==
    /\ state.game_status = "final"
    /\ ~state.is_top
    /\ state.inning = TOTAL_INNINGS
    /\ state.home_total > state.away_total
    /\ state.outs = 0

(***************************************************************************)
(* C4: the third out of the bottom of an inning N >= 9 ends the game when  *)
(* the totals differ; when they are equal the game stays active, play      *)
(* moves to the top of inning N + 1 and each per-inning score sequence     *)
(* gets exactly one more slot, holding zero.                               *)
(***************************************************************************)
C4_EndOfInning ==
    [][ ( /\ ThirdOut(state, state')
          /\ ~state.is_top
          /\ state.inning >= TOTAL_INNINGS )
        => IF state.home_total # state.away_total
           THEN state'.game_status = "final"
           ELSE /\ state'.game_status = "active"
                /\ state'.is_top
                /\ state'.inning = state.inning + 1
                /\ state'.away_score = Append(state.away_score, 0)
                /\ state'.home_score = Append(state.home_score, 0)
      ]_vars

\* The eleventh inning of a tied game.
C4_Witness ==
    /\ state.game_status = "active"
    /\ state.inning = TOTAL_INNINGS + 2
    /\ Len(state.home_score) = TOTAL_INNINGS + 2
    /\ state.home_total = state.away_total
    /\ state.home_total > 0

(***************************************************************************)
(* C5: the status is active at first, takes no value but active and final, *)
(* and changes only from active to final.                                  *)
(***************************************************************************)
C5_StatusMonotonic ==
    /\ state.game_status = "active"
    /\ [][ /\ state.game_status = "final" => state'.game_status = "final"
           /\ state'.game_status # state.game_status
              => state.game_status = "active" /\ state'.game_status = "final"
         ]_vars

\* A finished game on which every operation can be called.
C5_Witness ==
    /\ state.game_status = "final"
    /\ pc = "idle"
    /\ state.is_top

(***************************************************************************)
(* C6: no operation changes any field of a finished game.                  *)
(***************************************************************************)
C6_FinalIsTerminal ==
    [][ state.game_status = "final" => state' = state ]_vars

\* A finished game whose role is batting: process_at_bat passes the role test.
C6_Witness ==
    /\ state.game_status = "final"
    /\ pc = "idle"
    /\ state.player_role = "batting"

(***************************************************************************)
(* C7: in every state on record outs is in 0..2, balls in 0..3 and strikes *)
(* in 0..2.                                                                *)
(***************************************************************************)
C7_CountRanges ==
    \A o \in Observed :
        /\ o.outs \in 0..2
        /\ o.balls \in 0..3
        /\ o.strikes \in 0..2

\* Two out and a full count.
C7_Witness ==
    state.outs = 2 /\ state.balls = 3 /\ state.strikes = 2

(***************************************************************************)
(* C8: the role is pitching exactly in a top half and batting exactly in a *)
(* bottom half, in active and finished games.                              *)
(***************************************************************************)
C8_RoleFromHalf ==
    \A o \in Observed :
        /\ o.player_role \in {"pitching", "batting"}
        /\ o.player_role = "pitching" <=> o.is_top

\* A game finished in a bottom half.
C8_Witness ==
    /\ state.game_status = "final"
    /\ ~state.is_top
    /\ state.player_role = "batting"
    /\ state.home_total = 2

(***************************************************************************)
(* C9: a step that records a third out leaves outs 0, the bases empty, the *)
(* count 0-0, and the half and role flipped: top to bottom of the same     *)
(* inning, bottom to top of the next, also when the game ends.             *)
(***************************************************************************)
C9_ThirdOutResets ==
    [][ ThirdOut(state, state')
        => /\ state'.outs = 0
           /\ state'.bases = EmptyBases
           /\ state'.balls = 0 /\ state'.strikes = 0
           /\ state'.is_top = ~state.is_top
           /\ IF state.is_top
              THEN /\ state'.player_role = "batting"
                   /\ state'.inning = state.inning
              ELSE /\ state'.player_role = "pitching"
                   /\ state'.inning = state.inning + 1
      ]_vars

\* A game ended by the third out of the bottom of the ninth.
C9_Witness ==
    /\ state.game_status = "final"
    /\ state.is_top
    /\ state.inning = TOTAL_INNINGS + 1
    /\ state.outs = 0 /\ state.bases = EmptyBases

(***************************************************************************)
(* C10 as claimed: in every game a completed at-bat advances the batting   *)
(* team's lineup index by one modulo 9 and leaves the other team's index.  *)
(***************************************************************************)
C10_AdvancesInEveryGame ==
    [][ AtBatCompleted(state, state')
        => IF state.is_top
           THEN /\ state'.away_batter_idx
                     = (state.away_batter_idx + 1) % LineupSize
                /\ state'.home_batter_idx = state.home_batter_idx
           ELSE /\ state'.home_batter_idx
                     = (state.home_batter_idx + 1) % LineupSize
                /\ state'.away_batter_idx = state.away_batter_idx
      ]_vars

(***************************************************************************)
(* C10 as amended: a lineup is absent or has 9 batters; a completed at-bat *)
(* advances the batting team's index by one modulo 9 when that team has a  *)
(* lineup and leaves it when it has none (the default game), and leaves    *)
(* the other team's index; the batter shown at the start of a half-inning  *)
(* is the one at the batting team's index.                                 *)
(***************************************************************************)
C10_AdvancesWithLineup ==
    /\ /\ state.away_lineup \in {None, TeamLineup}
       /\ state.home_lineup \in {None, TeamLineup}
    /\ [][ /\ AtBatCompleted(state, state')
              => LET top == state.is_top
                     lineup == IF top THEN state.away_lineup
                               ELSE state.home_lineup
                     idx == IF top THEN state.away_batter_idx
                            ELSE state.home_batter_idx
                     idx2 == IF top THEN state'.away_batter_idx
                             ELSE state'.home_batter_idx
                 IN /\ idx2 = IF lineup = None THEN idx
                              ELSE (idx + 1) % LineupSize
                    /\ top => state'.home_batter_idx = state.home_batter_idx
                    /\ ~top => state'.away_batter_idx = state.away_batter_idx
           /\ ( /\ state'.is_top # state.is_top
                /\ state'.game_status = "active"
                /\ state'.away_lineup # None )
              => state'.current_batter_index
                   = IF state'.is_top THEN state'.away_batter_idx
                     ELSE state'.home_batter_idx
         ]_vars

\* The away team comes up again in the second inning where it left off.
C10_Witness ==
    /\ state.away_lineup # None
    /\ state.inning = 2 /\ state.is_top
    /\ state.away_batter_idx = 5
    /\ state.home_batter_idx = 3
    /\ state.current_batter_index = 5

(***************************************************************************)
(* The balls of an at-bat, one pitch at a time (SpecPlay, with Before the  *)
(* state the pitch was applied to): a ball below three balls adds one ball *)
(* and the at-bat goes on; a strike or foul that does not end the at-bat   *)
(* leaves the balls; the ball at three balls is the walk, which puts the   *)
(* batter on first, resets the count and leaves the outs. With balls in    *)
(* 0..3 (C7) the fourth ball of an at-bat is that walk.                    *)
(***************************************************************************)
BallsCounted ==
    /\ (pc = "ball" /\ Before.balls < 3)
         => /\ state.balls = Before.balls + 1
            /\ state.strikes = Before.strikes
            /\ AtBatGoesOn(Before, state)
    /\ (pc = "foul" \/ (pc \in {"strike_looking", "strike_swinging"}
                         /\ Before.strikes < 2))
         => /\ state.balls = Before.balls
            /\ AtBatGoesOn(Before, state)

WalkOnBallFour ==
    (pc = "ball" /\ Before.balls = 3)
      => /\ state.bases[1]
         /\ state.balls = 0 /\ state.strikes = 0
         /\ state.outs = Before.outs
         /\ state.inning = Before.inning /\ state.is_top = Before.is_top
         /\ state.game_status = "active"
         /\ state.last_play = <<MsgWalk>>

(***************************************************************************)
(* C11 as claimed: four balls in one at-bat make exactly one walk - batter *)
(* on first, count 0-0, outs unchanged - and the walk advances the batting *)
(* team's lineup index by one modulo 9 in every game.                      *)
(***************************************************************************)
C11_WalkAdvancesInEveryGame ==
    /\ BallsCounted
    /\ WalkOnBallFour
    /\ (pc = "ball" /\ Before.balls = 3)
         => BattingIdx(state) = (BattingIdx(Before) + 1) % LineupSize

(***************************************************************************)
(* C11 as amended: four balls in one at-bat make exactly one walk - batter *)
(* on first, count 0-0, outs unchanged; the walk advances the batting      *)
(* team's lineup index by one modulo 9 when that team has a lineup and     *)
(* leaves it when it has none.                                             *)
(***************************************************************************)
C11_FourBallsWalk ==
    /\ BallsCounted
    /\ WalkOnBallFour
    /\ (pc = "ball" /\ Before.balls = 3)
         => BattingIdx(state)
              = IF BattingLineup(Before) = None THEN BattingIdx(Before)
                ELSE (BattingIdx(Before) + 1) % LineupSize

\* The ninth batter of the away lineup walks on a full count with the bases
\* loaded: the index is back at 0.
C11_Witness ==
    /\ pc = "ball"
    /\ Before.balls = 3 /\ Before.strikes = 2
    /\ Before.away_lineup # None
    /\ Before.away_batter_idx = 8
    /\ state.away_batter_idx = 0
    /\ state.bases[1]
    /\ state.balls = 0 /\ state.strikes = 0

(***************************************************************************)
(* C12: the strikes of an at-bat, one pitch at a time (SpecPlay). A called *)
(* or swung strike below two strikes adds one strike and the at-bat goes   *)
(* on; at two strikes it is the strikeout: one out more and the count 0-0, *)
(* or, with two out, the half-inning transition. With strikes in 0..2 (C7) *)
(* the third such strike of an at-bat is that strikeout.                   *)
(***************************************************************************)
C12_ThreeStrikesOut ==
    pc \in {"strike_looking", "strike_swinging"}
      => IF Before.strikes < 2
         THEN /\ state.strikes = Before.strikes + 1
              /\ state.balls = Before.balls
              /\ AtBatGoesOn(Before, state)
         ELSE /\ state.balls = 0 /\ state.strikes = 0
              /\ state.away_total = Before.away_total
              /\ state.home_total = Before.home_total
              /\ IF Before.outs < 2
                 THEN /\ state.outs = Before.outs + 1
                      /\ state.bases = Before.bases
                      /\ state.inning = Before.inning
                      /\ state.is_top = Before.is_top
                      /\ state.game_status = "active"
                      /\ state.last_play = <<MsgStrikeout>>
                 ELSE /\ state.outs = 0
                      /\ state.bases = EmptyBases
                      /\ state.is_top = ~Before.is_top
                      /\ state.last_play = <<MsgHalf>>

\* A called third strike on a full count for the third out of the top of
\* the first, two runners left on.
C12_Witness ==
    /\ pc = "strike_looking"
    /\ Before.strikes = 2 /\ Before.balls = 3 /\ Before.outs = 2
    /\ Before.bases = <<TRUE, FALSE, TRUE>>
    /\ Before.is_top /\ ~state.is_top
    /\ state.outs = 0 /\ state.bases = EmptyBases

(***************************************************************************)
(* C13: after a foul (SpecPlay), with Before the state it was applied to:  *)
(* from two strikes the strikes stay 2 and the at-bat goes on - outs,      *)
(* balls, bases, scores and lineup indices as before; from fewer than two  *)
(* strikes the strikes are one more.                                       *)
(***************************************************************************)
C13_Foul ==
    pc = "foul"
      => IF Before.strikes = 2
         THEN /\ state.strikes = 2
              /\ state.balls = Before.balls
              /\ state.outs = Before.outs
              /\ state.bases = Before.bases
              /\ state.away_score = Before.away_score
              /\ state.home_score = Before.home_score
              /\ state.away_total = Before.away_total
              /\ state.home_total = Before.home_total
              /\ state.inning = Before.inning
              /\ state.is_top = Before.is_top
              /\ state.away_batter_idx = Before.away_batter_idx
              /\ state.home_batter_idx = Before.home_batter_idx
              /\ state.current_batter_index = Before.current_batter_index
              /\ state.game_status = "active"
         ELSE state.strikes = Before.strikes + 1

\* A foul on a full count with two out and the bases loaded, the seventh
\* batter of the lineup at the plate.
C13_Witness ==
    /\ pc = "foul"
    /\ state.away_lineup # None
    /\ state.away_batter_idx = 6 /\ state.current_batter_index = 6
    /\ Before.strikes = 2 /\ Before.balls = 3 /\ Before.outs = 2
    /\ Before.bases = <<TRUE, TRUE, TRUE>>
    /\ state.strikes = 2

(***************************************************************************)
(* The runners after a walk and the runs it scores, for the eight base     *)
(* configurations (first, second, third), as specified.                    *)
(***************************************************************************)
Resolved(bases, runs) == [bases |-> bases, runs |-> runs]

WalkTable(bases) ==
    CASE bases = <<FALSE, FALSE, FALSE>> -> Resolved(<<TRUE, FALSE, FALSE>>, 0)
      [] bases = <<TRUE, FALSE, FALSE>> -> Resolved(<<TRUE, TRUE, FALSE>>, 0)
      [] bases = <<FALSE, TRUE, FALSE>> -> Resolved(<<TRUE, TRUE, FALSE>>, 0)
      [] bases = <<FALSE, FALSE, TRUE>> -> Resolved(<<TRUE, FALSE, TRUE>>, 0)
      [] bases = <<TRUE, TRUE, FALSE>> -> Resolved(<<TRUE, TRUE, TRUE>>, 0)
      [] bases = <<TRUE, FALSE, TRUE>> -> Resolved(<<TRUE, TRUE, TRUE>>, 0)
      [] bases = <<FALSE, TRUE, TRUE>> -> Resolved(<<TRUE, TRUE, TRUE>>, 0)
      [] bases = <<TRUE, TRUE, TRUE>> -> Resolved(<<TRUE, TRUE, TRUE>>, 1)

\* In SpecPlay: the last play was ball four.
Walked == pc = "ball" /\ Before.balls = 3

(***************************************************************************)
(* C14: after a walk (SpecPlay) the bases and the runs scored are those of *)
(* the table: the batter on first, only forced runners moved, one run only *)
(* from loaded bases, a runner on third alone left on third.               *)
(***************************************************************************)
C14_WalkForcesRunners ==
    Walked
      => /\ state.bases = WalkTable(Before.bases).bases
         /\ RunsScored = WalkTable(Before.bases).runs

\* A walk with the bases loaded: one run, the bases still loaded.
C14_Witness ==
    /\ Walked
    /\ Before.bases = <<TRUE, TRUE, TRUE>>
    /\ state.bases = <<TRUE, TRUE, TRUE>>
    /\ RunsScored = 1

(***************************************************************************)
(* The runners after a hit and the runs it scores, for the eight base      *)
(* configurations (first, second, third), as specified.                    *)
(***************************************************************************)
SingleTable(bases) ==
    CASE bases = <<FALSE, FALSE, FALSE>> -> Resolved(<<TRUE, FALSE, FALSE>>, 0)
      [] bases = <<TRUE, FALSE, FALSE>> -> Resolved(<<TRUE, TRUE, FALSE>>, 0)
      [] bases = <<FALSE, TRUE, FALSE>> -> Resolved(<<TRUE, FALSE, TRUE>>, 0)
      [] bases = <<FALSE, FALSE, TRUE>> -> Resolved(<<TRUE, FALSE, FALSE>>, 1)
      [] bases = <<TRUE, TRUE, FALSE>> -> Resolved(<<TRUE, TRUE, TRUE>>, 0)
      [] bases = <<TRUE, FALSE, TRUE>> -> Resolved(<<TRUE, TRUE, FALSE>>, 1)
      [] bases = <<FALSE, TRUE, TRUE>> -> Resolved(<<TRUE, FALSE, TRUE>>, 1)
      [] bases = <<TRUE, TRUE, TRUE>> -> Resolved(<<TRUE, TRUE, TRUE>>, 1)

DoubleTable(bases) ==
    CASE bases = <<FALSE, FALSE, FALSE>> -> Resolved(<<FALSE, TRUE, FALSE>>, 0)
      [] bases = <<TRUE, FALSE, FALSE>> -> Resolved(<<FALSE, TRUE, TRUE>>, 0)
      [] bases = <<FALSE, TRUE, FALSE>> -> Resolved(<<FALSE, TRUE, FALSE>>, 1)
      [] bases = <<FALSE, FALSE, TRUE>> -> Resolved(<<FALSE, TRUE, FALSE>>, 1)
      [] bases = <<TRUE, TRUE, FALSE>> -> Resolved(<<FALSE, TRUE, TRUE>>, 1)
      [] bases = <<TRUE, FALSE, TRUE>> -> Resolved(<<FALSE, TRUE, TRUE>>, 1)
      [] bases = <<FALSE, TRUE, TRUE>> -> Resolved(<<FALSE, TRUE, FALSE>>, 2)
      [] bases = <<TRUE, TRUE, TRUE>> -> Resolved(<<FALSE, TRUE, TRUE>>, 2)

TripleTable(bases) ==
    CASE bases = <<FALSE, FALSE, FALSE>> -> Resolved(<<FALSE, FALSE, TRUE>>, 0)
      [] bases = <<TRUE, FALSE, FALSE>> -> Resolved(<<FALSE, FALSE, TRUE>>, 1)
      [] bases = <<FALSE, TRUE, FALSE>> -> Resolved(<<FALSE, FALSE, TRUE>>, 1)
      [] bases = <<FALSE, FALSE, TRUE>> -> Resolved(<<FALSE, FALSE, TRUE>>, 1)
      [] bases = <<TRUE, TRUE, FALSE>> -> Resolved(<<FALSE, FALSE, TRUE>>, 2)
      [] bases = <<TRUE, FALSE, TRUE>> -> Resolved(<<FALSE, FALSE, TRUE>>, 2)
      [] bases = <<FALSE, TRUE, TRUE>> -> Resolved(<<FALSE, FALSE, TRUE>>, 2)
      [] bases = <<TRUE, TRUE, TRUE>> -> Resolved(<<FALSE, FALSE, TRUE>>, 3)

HomerunTable(bases) ==
    CASE bases = <<FALSE, FALSE, FALSE>> -> Resolved(<<FALSE, FALSE, FALSE>>, 1)
      [] bases = <<TRUE, FALSE, FALSE>> -> Resolved(<<FALSE, FALSE, FALSE>>, 2)
      [] bases = <<FALSE, TRUE, FALSE>> -> Resolved(<<FALSE, FALSE, FALSE>>, 2)
      [] bases = <<FALSE, FALSE, TRUE>> -> Resolved(<<FALSE, FALSE, FALSE>>, 2)
      [] bases = <<TRUE, TRUE, FALSE>> -> Resolved(<<FALSE, FALSE, FALSE>>, 3)
      [] bases = <<TRUE, FALSE, TRUE>> -> Resolved(<<FALSE, FALSE, FALSE>>, 3)
      [] bases = <<FALSE, TRUE, TRUE>> -> Resolved(<<FALSE, FALSE, FALSE>>, 3)
      [] bases = <<TRUE, TRUE, TRUE>> -> Resolved(<<FALSE, FALSE, FALSE>>, 4)

HitTable(bases, hit_type) ==
    CASE hit_type = "single" -> SingleTable(bases)
      [] hit_type = "double" -> DoubleTable(bases)
      [] hit_type = "triple" -> TripleTable(bases)
      [] hit_type = "homerun" -> HomerunTable(bases)

(***************************************************************************)
(* C15: after a hit (SpecPlay) the bases and the runs scored are those of  *)
(* the table for the hit type and the bases before it.                     *)
(***************************************************************************)
C15_HitMovesRunners ==
    pc \in HIT_TYPES
      => /\ state.bases = HitTable(Before.bases, pc).bases
         /\ RunsScored = HitTable(Before.bases, pc).runs

\* A home run with the bases loaded: four runs, the bases empty.
C15_Witness ==
    /\ pc = "homerun"
    /\ Before.bases = <<TRUE, TRUE, TRUE>>
    /\ state.bases = EmptyBases
    /\ RunsScored = 4

(***************************************************************************)
(* C16: after a hit or a walk (SpecPlay) the runs it scores - those of the *)
(* tables - are added to the current inning's slot and to the total of the *)
(* team at bat, the away team in the top half and the home team in the     *)
(* bottom half; the other slots of that team and the other team's scores   *)
(* and total are as before.                                                *)
(***************************************************************************)
C16_RunsToBattingTeam ==
    (pc \in HIT_TYPES \/ Walked)
      => LET runs == IF pc \in HIT_TYPES
                     THEN HitTable(Before.bases, pc).runs
                     ELSE WalkTable(Before.bases).runs
             i == Before.inning
         IN IF Before.is_top
            THEN /\ state.away_score
                      = [Before.away_score EXCEPT ![i] = @ + runs]
                 /\ state.away_total = Before.away_total + runs
                 /\ state.home_score = Before.home_score
                 /\ state.home_total = Before.home_total
            ELSE /\ state.home_score
                      = [Before.home_score EXCEPT ![i] = @ + runs]
                 /\ state.home_total = Before.home_total + runs
                 /\ state.away_score = Before.away_score
                 /\ state.away_total = Before.away_total

\* The home team, with a run in already and the game tied 1-1, scores two
\* more in the bottom of the first.
C16_Witness ==
    /\ pc \in HIT_TYPES
    /\ ~Before.is_top
    /\ Before.away_total = 1 /\ state.away_total = 1
    /\ Before.home_score[1] = 1 /\ state.home_score[1] = 3
    /\ state.home_total = 3

(***************************************************************************)
(* Calls out of role on an active game, and the game situation: all of the *)
(* game state but the log, the last play and the batter shown.             *)
(***************************************************************************)
OutOfRolePitch ==
    /\ state.game_status = "active"
    /\ state.player_role # "pitching"
    /\ process_pitch

OutOfRoleAtBat ==
    /\ state.game_status = "active"
    /\ state.player_role # "batting"
    /\ process_at_bat

Situation(s) ==
    [ inning |-> s.inning, is_top |-> s.is_top, outs |-> s.outs,
      balls |-> s.balls, strikes |-> s.strikes, bases |-> s.bases,
      away_score |-> s.away_score, home_score |-> s.home_score,
      away_total |-> s.away_total, home_total |-> s.home_total,
      player_role |-> s.player_role, game_status |-> s.game_status,
      away_batter_idx |-> s.away_batter_idx,
      home_batter_idx |-> s.home_batter_idx ]

(***************************************************************************)
(* C17: a process_pitch call while batting, or a process_at_bat call while *)
(* pitching, on an active game leaves the game situation as it was.        *)
(***************************************************************************)
C17_OutOfRoleNoOp ==
    [][ (OutOfRolePitch \/ OutOfRoleAtBat)
          => Situation(state') = Situation(state)
      ]_vars

\* A pitch was called for in the bottom of the ninth, full count, two out,
\* the home team a run behind.
C17_Witness ==
    /\ state.last_play = <<MsgNotPitching>>
    /\ state.game_status = "active"
    /\ state.inning = TOTAL_INNINGS /\ ~state.is_top
    /\ state.outs = 2 /\ state.balls = 3 /\ state.strikes = 2
    /\ state.away_total = 1 /\ state.home_total = 0

(***************************************************************************)
(* C18: a call out of role on an active game adds an explanatory entry to  *)
(* the play log: afterwards the log is one entry longer and ends with the  *)
(* explanation.                                                            *)
(***************************************************************************)
C18_OutOfRoleLogged ==
    [][ (OutOfRolePitch \/ OutOfRoleAtBat)
          => /\ Len(state'.play_log) = Len(state.play_log) + 1
             /\ state'.play_log[Len(state'.play_log)]
                  \in {MsgNotPitching, MsgNotBatting}
      ]_vars

\* a is the beginning of b; a is the end of b.
IsPrefix(a, b) ==
    Len(a) <= Len(b) /\ SubSeq(b, 1, Len(a)) = a

IsSuffix(a, b) ==
    Len(a) <= Len(b) /\ SubSeq(b, Len(b) - Len(a) + 1, Len(b)) = a

(***************************************************************************)
(* C19: in every state on record the last play is made of the last entries *)
(* of the log: its most recent entry, or the lines last appended together. *)
(***************************************************************************)
C19_LastPlayEndsLog ==
    \A s \in Observed :
        s.last_play # <<>> /\ IsSuffix(s.last_play, s.play_log)

(***************************************************************************)
(* A pitch that is accepted: a step inside the loop of simulate_game (only *)
(* its plays are), or a step of process_pitch or process_at_bat on an      *)
(* active game that is not a call out of role.                             *)
(***************************************************************************)
AcceptedPitch ==
    /\ state.game_status = "active"
    /\ \/ pc = "sim" /\ pc' = "sim"
       \/ /\ pc = "idle" /\ pc' = "idle"
          /\ ~(OutOfRolePitch \/ OutOfRoleAtBat)

C21_SimulationTerminates ==
    [][pc = "sim"
         => IF state.game_status = "active" /\ iteration < max_iterations
            THEN /\ pc' = "sim"
                 /\ iteration' = iteration + 1
                 /\ iteration' <= max_iterations
            ELSE /\ pc' = "returned"
                 /\ state' = state
                 /\ iteration' = iteration]_vars

\* A simulation that stopped on the play that ended the game.
C21_Witness ==
    /\ pc = "returned"
    /\ state.game_status = "final"
    /\ iteration = 2
    /\ snapshots[2].game_status = "active"


(***************************************************************************)
(* C22: when the loop of simulate_game has applied max_iterations plays    *)
(* and the game is still active, the call returns: the state reached, its  *)
(* status still active, and the snapshots taken are the result.            *)
(***************************************************************************)
C22_CeilingReturnsActive ==
    [][(pc = "sim" /\ iteration = max_iterations
                  /\ state.game_status = "active")
         => /\ pc' = "returned"
            /\ state'.game_status = "active"
            /\ state' = state
            /\ snapshots' = snapshots]_vars

\* The result of a simulation that ran into the ceiling.
C22_Witness ==
    /\ pc = "returned"
    /\ iteration = max_iterations
    /\ state.game_status = "active"
    /\ Len(snapshots) = max_iterations + 1


(***************************************************************************)
(* C23: the snapshots of simulate_game: the first is the state before any  *)
(* play, each play adds the snapshot of the state right after it and       *)
(* leaves the earlier ones as they were, so that there are plays + 1 of    *)
(* them, and the last one is the snapshot of the state that is returned.   *)
(***************************************************************************)
C23_SnapshotPerPlay ==
    [][/\ (pc = "idle" /\ pc' = "sim")
            => /\ snapshots' = <<_snapshot(state)>>
               /\ iteration' = 0
       /\ (pc = "sim" /\ pc' = "sim")
            => /\ snapshots' = Append(snapshots, _snapshot(state'))
               /\ Len(snapshots') = iteration' + 1
       /\ (pc = "sim" /\ pc' = "returned")
            => /\ snapshots' = snapshots
               /\ Len(snapshots') = iteration' + 1
               /\ snapshots'[Len(snapshots')] = _snapshot(state')]_vars

\* A simulation of two plays returned with three snapshots: an out, then the
\* out that ended the game.
C23_Witness ==
    /\ pc = "returned"
    /\ Len(snapshots) = 3
    /\ snapshots[1].game_status = "active"
    /\ snapshots[2].play_log # snapshots[1].play_log
    /\ snapshots[2].outs = snapshots[1].outs + 1
    /\ snapshots[2].game_status = "active"
    /\ snapshots[3].game_status = "final"
    /\ snapshots[3] = _snapshot(state)


(***************************************************************************)
(* C24: two requests for the same game are serialized: what a request      *)
(* running beside another one is given is a state that the requests, one   *)
(* after the other, can produce: its count is below four balls and three   *)
(* strikes, its outs below three, its totals the sums of the inning        *)
(* scores.                                                                 *)
(***************************************************************************)
C24_Serialized ==
    \A i \in DOMAIN snapshots :
        /\ snapshots[i].balls <= 3
        /\ snapshots[i].strikes <= 2
        /\ snapshots[i].outs <= 2
        /\ snapshots[i].away_total = SumSeq(snapshots[i].away_score)
        /\ snapshots[i].home_total = SumSeq(snapshots[i].home_score)


(***************************************************************************)
(* C25: create_new_game without a home team id returns a game that is      *)
(* stored under an id no game had, active, in the top of the 1st with the  *)
(* player pitching, bases empty, no balls, strikes, outs or runs, and with *)
(* an entry in its log.                                                    *)
(***************************************************************************)
C25_DefaultGameCreated ==
    [][(pc' = "create_new_game" /\ Call'.home_team_id = NoId)
         => LET g == Call'.result
            IN /\ g.game_id \notin DOMAIN _games
               /\ g.game_id \in DOMAIN _games'
               /\ _games'[g.game_id] = g
               /\ g.game_status = "active"
               /\ g.inning = 1 /\ g.is_top
               /\ g.player_role = "pitching"
               /\ g.bases = EmptyBases
               /\ g.balls = 0 /\ g.strikes = 0 /\ g.outs = 0
               /\ g.away_total = 0 /\ g.home_total = 0
               /\ g.play_log # <<>>]_vars

\* A game created without a team id, in the repository.
C25_Witness ==
    /\ pc = "create_new_game"
    /\ Call.home_team_id = NoId
    /\ Call.down = {}
    /\ _games[Call.result.game_id].play_log = <<MsgPlayBall>>

\* A call of the provider that create_new_game made has failed: the list of
\* teams, the pick of the opponent, or the rosters.
ProviderFailed(c) ==
    /\ c.home_team_id # NoId
    /\ \/ "teams" \in c.down
       \/ /\ c.home_team_id \in TeamIds
          /\ IF c.away_team_id \in TeamIds \/ "opponent" \notin c.down
             THEN "team_roster" \in c.down
             ELSE TRUE

\* The game has no team, lineup or pitcher.
Teamless(g) ==
    /\ g.home_team = None /\ g.away_team = None
    /\ g.home_abbreviation = None /\ g.away_abbreviation = None
    /\ g.home_lineup = None /\ g.away_lineup = None
    /\ g.home_pitcher = None /\ g.away_pitcher = None

(***************************************************************************)
(* C26: when the provider fails at any step of create_new_game, the game   *)
(* returned and stored is active, in the initial position, and is the      *)
(* default game: no team name, abbreviation, lineup or pitcher.            *)
(***************************************************************************)
C26_FailureGivesDefaultGame ==
    (pc = "create_new_game" /\ ProviderFailed(Call))
      => LET g == Call.result
         IN /\ _games[g.game_id] = g
            /\ g.game_status = "active"
            /\ g.inning = 1 /\ g.is_top /\ g.outs = 0
            /\ Teamless(g)

(***************************************************************************)
(* C27 as stated: every game create_new_game returns has two lineups of    *)
(* nine batters and two pitchers.                                          *)
(***************************************************************************)
C27_EveryGameHasLineups ==
    pc = "create_new_game"
      => LET g == Call.result
         IN /\ Len(g.home_lineup) = LineupSize
            /\ Len(g.away_lineup) = LineupSize
            /\ g.home_pitcher # None
            /\ g.away_pitcher # None

(***************************************************************************)
(* C27: a game that create_new_game returns with its teams named (the home *)
(* team was found, the opponent given or picked) has for each team a       *)
(* lineup of nine batters and a pitcher, placeholders (id 0) when the      *)
(* roster could not be fetched; every other game it returns - no team id,  *)
(* unknown team id, list of teams or pick of the opponent failed - has no  *)
(* lineup and no pitcher.                                                  *)
(***************************************************************************)
C27_LineupsOfNamedTeams ==
    pc = "create_new_game"
      => LET g == Call.result
             named == /\ Call.home_team_id \in TeamIds
                      /\ "teams" \notin Call.down
                      /\ \/ Call.away_team_id \in TeamIds
                         \/ "opponent" \notin Call.down
         IN IF named
            THEN /\ g.home_team # None /\ g.away_team # None
                 /\ Len(g.home_lineup) = LineupSize
                 /\ Len(g.away_lineup) = LineupSize
                 /\ g.home_pitcher # None /\ g.away_pitcher # None
                 /\ "team_roster" \in Call.down
                      => /\ \A i \in 1..LineupSize :
                               g.home_lineup[i] = 0 /\ g.away_lineup[i] = 0
                         /\ g.home_pitcher.id = 0 /\ g.away_pitcher.id = 0
            ELSE Teamless(g)

\* A game of two named teams created with the rosters out of reach.
C27_Witness ==
    /\ pc = "create_new_game"
    /\ Call.down = {"team_roster"}
    /\ Call.result.home_team # None
    /\ Call.result.home_lineup[LineupSize] = 0
    /\ Call.result.away_pitcher.id = 0

(***************************************************************************)
(* C28: process_pitch, process_at_bat, simulate_game and get_game called   *)
(* with an id that is not in the repository leave the repository as it is  *)
(* and return no game: None or the empty dict.                             *)
(***************************************************************************)
C28_AbsentIdNotFound ==
    [][(/\ pc' \in {"process_pitch", "process_at_bat", "simulate_game",
                     "get_game"}
        /\ Call'.game_id \notin DOMAIN _games)
         => /\ _games' = _games
            /\ Call'.result \in {None, EmptyDict}
            /\ \A id \in DOMAIN _games : Call'.result # _games[id]]_vars

\* process_pitch called with an id that is not stored, beside a stored game.
C28_Witness ==
    /\ pc = "process_pitch"
    /\ DOMAIN _games # {}
    /\ Call.game_id \notin DOMAIN _games
    /\ Call.result = EmptyDict


\* The table returned by the call.
Adjusted == snapshots[1]

(***************************************************************************)
(* C29: the weights of the table returned by calculate_adjusted_outcomes   *)
(* or calculate_adjusted_take_outcomes add up to the total of the base     *)
(* table, but for the rounding of the entries: the two totals differ by    *)
(* less than one unit per entry.                                           *)
(***************************************************************************)
C29_TotalPreserved ==
    pc = "adjusted"
      => LET diff == Total(Adjusted) - Total(state.base_outcomes)
             entries == Cardinality(DOMAIN state.base_outcomes)
         IN -entries < diff /\ diff < entries

\* A swing table whose weights were changed and whose total moved by the
\* rounding.
C29_Witness ==
    /\ pc = "adjusted"
    /\ state.swings
    /\ Adjusted.single > state.base_outcomes.single
    /\ Total(Adjusted) = Total(state.base_outcomes) + 2

(***************************************************************************)
(* C30: the table returned has the outcomes of the base table, each with a *)
(* weight that is an integer of at least 1.                                *)
(***************************************************************************)
C30_SameOutcomesPositiveWeights ==
    pc = "adjusted"
      => /\ DOMAIN Adjusted = DOMAIN state.base_outcomes
         /\ \A outcome \in DOMAIN Adjusted :
               Adjusted[outcome] \in Nat /\ Adjusted[outcome] >= 1

\* A weak batter against a strong pitcher: the hits are cut to a third and
\* the triple is kept at weight 1.
C30_Witness ==
    /\ pc = "adjusted"
    /\ state.swings
    /\ 3 * Adjusted.single <= state.base_outcomes.single
    /\ Adjusted.triple = 1


(***************************************************************************)
(* C31: the tables SWING_OUTCOMES and TAKE_OUTCOMES of the module hold     *)
(* their initial weights after any sequence of determine_outcome calls,    *)
(* whatever the stats: the adjustment works on a copy.                     *)
(***************************************************************************)
C31_TablesNeverMutated ==
    /\ state.SWING_OUTCOMES = SWING_OUTCOMES
    /\ state.TAKE_OUTCOMES = TAKE_OUTCOMES

\* A call that drew from an adjusted swing table.
C31_Witness ==
    /\ pc = "single"
    /\ Call.pitch_type = "curveball"
    /\ Call.table # SWING_OUTCOMES.curveball
    /\ state.SWING_OUTCOMES.curveball = SWING_OUTCOMES.curveball

(***************************************************************************)
(* C32: determine_outcome without a swing returns ball or strike_looking,  *)
(* and with a swing neither of the two, for every pitch type and all       *)
(* stats.                                                                  *)
(***************************************************************************)
C32_TakeAndSwingOutcomes ==
    pc # "idle"
      => IF Call.swings
         THEN pc \notin {"ball", "strike_looking"} /\ pc \in SwingOutcomes
         ELSE pc \in {"ball", "strike_looking"}

\* A take against a pitcher with stats, called a strike.
C32_Witness ==
    /\ pc = "strike_looking"
    /\ ~Call.swings
    /\ Call.table # TAKE_OUTCOMES[Call.pitch_type]

(***************************************************************************)
(* C33 as stated: of the four swing tables the slider's has the highest    *)
(* foul weight.                                                            *)
(***************************************************************************)
C33_SliderHighestFoul ==
    \A pitch_type \in PitchTypes :
        state.SWING_OUTCOMES.slider.foul
            >= state.SWING_OUTCOMES[pitch_type].foul

(***************************************************************************)
(* C33: the slider's foul weight is the highest of the breaking and        *)
(* off-speed pitches (curveball, changeup); the fastball's is the highest  *)
(* of the four.                                                            *)
(***************************************************************************)
C33_FoulWeights ==
    /\ \A pitch_type \in PitchTypes \ {"fastball"} :
          state.SWING_OUTCOMES.slider.foul
              >= state.SWING_OUTCOMES[pitch_type].foul
    /\ \A pitch_type \in PitchTypes \ {"fastball"} :
          state.SWING_OUTCOMES.fastball.foul
              > state.SWING_OUTCOMES[pitch_type].foul

\* A slider fouled off, drawn from the table of the module as it is.
C33_Witness ==
    /\ pc = "foul"
    /\ Call.pitch_type = "slider"
    /\ Call.table = state.SWING_OUTCOMES.slider


(***************************************************************************)
(* C34: while the game is active the two per-inning score sequences have   *)
(* the same length, the greater of 9 and the inning number, so the inning  *)
(* being played has its slot in both.                                      *)
(***************************************************************************)
C34_ScoreSlots ==
    \A o \in Observed :
        o.game_status = "active"
          => /\ Len(o.away_score) = Len(o.home_score)
             /\ Len(o.away_score)
                  = IF o.inning > TOTAL_INNINGS THEN o.inning
                    ELSE TOTAL_INNINGS
             /\ o.inning \in DOMAIN o.away_score
             /\ o.inning \in DOMAIN o.home_score

\* The home team has scored in the bottom of the tenth.
C34_Witness ==
    /\ state.game_status = "active"
    /\ state.inning = TOTAL_INNINGS + 1
    /\ ~state.is_top
    /\ Len(state.home_score) = TOTAL_INNINGS + 1
    /\ state.home_score[TOTAL_INNINGS + 1] = 1

(***************************************************************************)
(* C35: the status goes from active to final only in a step that records   *)
(* the third out of a half-inning; a step that puts the home team ahead in *)
(* the bottom of the ninth or later leaves the game active in that half.   *)
(***************************************************************************)
C35_FinalOnlyAtThirdOut ==
    [][ /\ ( state.game_status = "active" /\ state'.game_status # "active" )
           => ThirdOut(state, state')
        /\ ( /\ state.game_status = "active"
             /\ ~state.is_top
             /\ state.inning >= TOTAL_INNINGS
             /\ state.home_total <= state.away_total
             /\ state'.home_total > state'.away_total )
           => /\ state'.game_status = "active"
              /\ ~state'.is_top
              /\ state'.inning = state.inning
              /\ state'.outs = state.outs
      ]_vars

\* The home team went ahead in the bottom of the ninth and batted on to its
\* third out, which ended the game.
C35_Witness ==
    /\ state.game_status = "final"
    /\ state.is_top
    /\ state.inning = TOTAL_INNINGS + 1
    /\ state.home_score[TOTAL_INNINGS] > 0
    /\ state.home_total - state.home_score[TOTAL_INNINGS] <= state.away_total
    /\ state.home_total > state.away_total

(***************************************************************************)
(* C36: a finished game stands either in the bottom of an inning >= 9 with *)
(* the home team ahead (the top half ended it), or in the top of an inning *)
(* >= 10 (the bottom half of the inning before ended it).                  *)
(***************************************************************************)
C36_WhereGamesEnd ==
    \A o \in Observed :
        o.game_status = "final"
          => \/ /\ ~o.is_top
                /\ o.inning >= TOTAL_INNINGS
                /\ o.home_total > o.away_total
             \/ /\ o.is_top
                /\ o.inning >= TOTAL_INNINGS + 1

\* The away team won in nine innings.
C36_Witness ==
    /\ state.game_status = "final"
    /\ state.is_top
    /\ state.inning = TOTAL_INNINGS + 1
    /\ state.away_total > state.home_total

(***************************************************************************)
(* C39: the inning never decreases, neither total ever decreases, and the  *)
(* slot of an inning earlier than the one being played never changes.      *)
(***************************************************************************)
C39_Monotonic ==
    [][ /\ state'.inning >= state.inning
        /\ state'.away_total >= state.away_total
        /\ state'.home_total >= state.home_total
        /\ \A i \in 1..(state.inning - 1) :
              /\ state'.away_score[i] = state.away_score[i]
              /\ state'.home_score[i] = state.home_score[i]
      ]_vars

\* The runs of the eighth and of the ninth inning still on the board in the
\* bottom of the tenth.
C39_Witness ==
    /\ state.inning = TOTAL_INNINGS + 1
    /\ ~state.is_top
    /\ state.outs = 2
    /\ state.away_score[TOTAL_INNINGS - 1] = 1
    /\ state.home_score[TOTAL_INNINGS] = 1
    /\ state.away_total = 1 /\ state.home_total = 1


(***************************************************************************)
(* C37: a walk or a hit (SpecPlay) conserves the runners: the runners on   *)
(* base before it, plus the batter, are the runners on base after it plus  *)
(* the runs it scored.                                                     *)
(***************************************************************************)
C37_RunnersConserved ==
    (pc \in HIT_TYPES \/ Walked)
      => Count(Before.bases) + 1 = Count(state.bases) + RunsScored

\* A double with runners on first and third: one run, two runners on.
C37_Witness ==
    /\ pc = "double"
    /\ Before.bases = <<TRUE, FALSE, TRUE>>
    /\ Count(state.bases) = 2
    /\ RunsScored = 1

(***************************************************************************)
(* C38: a ball that is not ball four, a strike, a foul, a strikeout or a   *)
(* batted-ball out (SpecPlay) changes no per-inning score and no total,    *)
(* and leaves the bases as they were unless it is the third out.           *)
(***************************************************************************)
C38_NoRunsNoRunnersMoved ==
    (pc \in SwingOutcomes \cup TakeOutcomes /\ pc \notin HIT_TYPES /\ ~Walked)
      => /\ state.away_total = Before.away_total
         /\ state.home_total = Before.home_total
         /\ \A i \in DOMAIN Before.away_score :
               state.away_score[i] = Before.away_score[i]
         /\ \A i \in DOMAIN Before.home_score :
               state.home_score[i] = Before.home_score[i]
         /\ ~ThirdOut(Before, state) => state.bases = Before.bases

\* The second out, a fly ball, with the bases loaded and a run in.
C38_Witness ==
    /\ pc = "flyout"
    /\ Before.outs = 1 /\ state.outs = 2
    /\ Before.bases = <<TRUE, TRUE, TRUE>>
    /\ state.bases = <<TRUE, TRUE, TRUE>>
    /\ Before.away_total = 1 /\ state.away_total = 1


(***************************************************************************)
(* Interactive play: what the handler of the half does to game s when the  *)
(* outcome drawn is outcome - process_pitch in a top half, process_at_bat  *)
(* in a bottom half.                                                       *)
(***************************************************************************)
InteractivePlay(s, outcome) ==
    IF s.game_status # "active" THEN s
    ELSE IF s.is_top
         THEN IF s.player_role # "pitching"
              THEN [s EXCEPT !.last_play = <<MsgNotPitching>>]
              ELSE _apply_outcome(_get_current_batter(s), outcome, MsgPitch)
         ELSE IF s.player_role # "batting"
              THEN [s EXCEPT !.last_play = <<MsgNotBatting>>]
              ELSE _apply_outcome(_get_current_batter(s), outcome, MsgAtBat)

====
